---- MODULE Spec2Model ----
(***************************************************************************)
(* Agent Hub Server: the turn pipeline (httpapi.Server), the turn          *)
(* controller (runtime.TurnController), the permission bridge, the ACP     *)
(* stdio provider and the fake provider (agents), and the event log        *)
(* (storage.Store).                                                        *)
(*                                                                         *)
(* A request r is one POST .../turns or .../compact handler; the turn it   *)
(* mints (newTurnID) is named after the request.  Text is modelled as the  *)
(* sequence of the delta numbers it is made of.                            *)
(***************************************************************************)
EXTENDS Integers, Sequences, FiniteSets, TLC

Threads == {"t1", "t2", "t3"}
Clients == {"c1", "c2"}
Requests == {"r1", "r2"}
\* the request followed through an ACP session; the threads of the fake provider
Solo == {"r1"}
FakeThreads == {"t2", "t3"}
Workers == {"w1", "w2"}

\* threads.client_id of the two threads, and the provider the factory builds
Owner == [t \in Threads |-> IF t = "t1" THEN "c1" ELSE "c2"]
\* a thread id that names no row of the threads table
NoThread == "t0"
AgentOf == [t \in Threads |-> IF t = "t1" THEN "acp" ELSE "fake"]

\* deltas one provider emits during one Stream call
MaxDeltas == 2
\* process restarts on the same database
MaxRestarts == 1
\* rows of the events table written by the storage workers
MaxEvents == 4

Outcomes == {"approved", "declined", "cancelled"}
PermissionOutcomeDeclined == "declined"
StopReasonEndTurn == "end_turn"
StopReasonCancelled == "cancelled"
NoRet == [reason |-> "none", err |-> "none"]
\* a text is a sequence of characters; a prompt that composeContextPrompt
\* wrapped is kept by its parts, which renderContextPrompt joins under headings
Raw(text) == [wrapped |-> FALSE, summary |-> <<>>, recent |-> <<>>, input |-> text]
NoText == Raw(<<>>)
NoRow == [status |-> "none", stopReason |-> "", responseText |-> <<>>,
          thread |-> "none", internal |-> FALSE, requestText |-> NoText, createdAt |-> 0,
          completedAt |-> 0]
NoSummary == [turn |-> "none", text |-> <<>>]
NoFin == [status |-> "none", stopReason |-> ""]

VARIABLES
  pc, kind, thread, client, resp,
  ctxCancelled, disconnected, cancelPhase, cancelResp,
  byThread, byTurn,
  rows, events, summary,
  agg, nDeltas, ret, ctxSeen, fin,
  rl, respCh, connClosed, waited,
  permPhase, permOutcome, permBy, permDecider, permDelivered, permTimer, permLapsed,
  decResp,
  frames, prompt,
  agentsByThread, restarts,
  conn, txpc, txTurn, txMax,
  accepting, mainpc, sdpc, graceExpired, forceWaited,
  managedAgents, agentMu, closed, wpc, wThread, wNew, wAgent, jpc, jTodo, jCur, jActive, jItems,
  pending, callpc, callRes, callCh, callCtx, sent, closepc,
  tpc, tCtx, child, cancelAnswered, stdinClosed, tLog, tTimer, tElapsed,
  deltaErr,
  epc, attempt, eRuntime, eErr, eRet, eResets, eCreated, eCalls, eDeltas, eCtx,
  eQueue, eSeen, ePrompt,
  usedTurns, relArg, lastOp,
  wfpc, wfRet, wfCtx, wfTick, wfSince, wfLate,
  cmIn, cmOut, cmAgain

reqVars == <<pc, kind, thread, client, resp>>
ctxVars == <<ctxCancelled, disconnected, cancelPhase, cancelResp>>
ctlVars == <<byThread, byTurn>>
dbVars == <<rows, events, summary>>
strVars == <<agg, nDeltas, ret, ctxSeen, fin>>
acpVars == <<rl, respCh, connClosed, waited>>
permVars == <<permPhase, permOutcome, permBy, permDecider, permDelivered, permTimer, permLapsed,
              decResp>>
sysVars == <<agentsByThread, restarts>>
txVars == <<conn, txpc, txTurn, txMax>>
sdVars == <<accepting, mainpc, sdpc, graceExpired, forceWaited>>
cacheVars == <<managedAgents, agentMu, closed, wpc, wThread, wNew, wAgent, jpc, jTodo, jCur,
               jActive, jItems>>
rpcVars == <<pending, callpc, callRes, callCh, callCtx, sent, closepc>>
termVars == <<tpc, tCtx, child, cancelAnswered, stdinClosed, tLog, tTimer, tElapsed>>
deltaVars == <<deltaErr>>
embVars == <<epc, attempt, eRuntime, eErr, eRet, eResets, eCreated, eCalls, eDeltas, eCtx,
             eQueue, eSeen, ePrompt>>
wfVars == <<wfpc, wfRet, wfCtx, wfTick, wfSince, wfLate>>
relVars == <<usedTurns, relArg, lastOp, wfVars>>
cmVars == <<cmIn, cmOut, cmAgain>>
auxVars == <<sdVars, cacheVars, rpcVars, termVars, deltaVars, embVars, relVars, cmVars>>
auxButSd == <<cacheVars, rpcVars, termVars, deltaVars, embVars, relVars, cmVars>>
auxButCache == <<sdVars, rpcVars, termVars, deltaVars, embVars, relVars, cmVars>>
auxButRpc == <<sdVars, cacheVars, termVars, deltaVars, embVars, relVars, cmVars>>
auxButTerm == <<sdVars, cacheVars, rpcVars, deltaVars, embVars, relVars, cmVars>>
auxButDelta == <<sdVars, cacheVars, rpcVars, termVars, embVars, relVars, cmVars>>
auxButEmb == <<sdVars, cacheVars, rpcVars, termVars, deltaVars, relVars, cmVars>>
auxButRel == <<sdVars, cacheVars, rpcVars, termVars, deltaVars, embVars, cmVars>>
auxButCm == <<sdVars, cacheVars, rpcVars, termVars, deltaVars, embVars, relVars>>
coreVars == <<reqVars, ctxVars, ctlVars, dbVars, strVars, acpVars, permVars, frames, prompt, sysVars, txVars>>
vars == <<coreVars, auxVars>>

-----------------------------------------------------------------------------
(* runtime.TurnController: byThread maps a thread to its active turn,      *)
(* byTurn maps an active turn to its thread; the cancel function of turn   *)
(* u cancels ctxCancelled[u].                                              *)

ActivateOkNoCheck(bt, threadID) == TRUE

ActivateOk(bt, threadID) == threadID \notin DOMAIN bt

MapPut(f, k, v) == [x \in DOMAIN f \cup {k} |-> IF x = k THEN v ELSE f[x]]

MapDel(f, k) == [x \in DOMAIN f \ {k} |-> f[x]]

ReleaseOkAnyThread(bu, threadID, turnID) == turnID \in DOMAIN bu
ReleaseOk(bu, threadID, turnID) == turnID \in DOMAIN bu /\ bu[turnID] = threadID

ReleaseByThreadKept(bt, bu, threadID, turnID) == bt

ReleaseByThread(bt, bu, threadID, turnID) ==
  IF ReleaseOk(bu, threadID, turnID) THEN MapDel(bt, threadID) ELSE bt

ReleaseByTurn(bu, threadID, turnID) ==
  IF ReleaseOk(bu, threadID, turnID) THEN MapDel(bu, turnID) ELSE bu

-----------------------------------------------------------------------------
(* storage.Store                                                           *)

RECURSIVE MaxSeq(_)
MaxSeq(evs) ==
  IF evs = <<>> THEN 0
  ELSE LET m == MaxSeq(Tail(evs)) IN IF Head(evs).seq > m THEN Head(evs).seq ELSE m

NextSeq(maxSeq) == maxSeq + 1

\* AppendEvent as one transaction on the single connection
AppendEvent(ev, turnID, eventType, delta) ==
  [ev EXCEPT ![turnID] =
     Append(@, [seq |-> NextSeq(MaxSeq(@)), type |-> eventType, delta |-> delta])]

\* created_at orders the rows: a new row is later than the rows there are
CreatedAt(rw) == Cardinality({u \in DOMAIN rw : rw[u].status # "none"}) + 1

CreateTurnStamped(rw, turnID, threadID, requestText, isInternal) ==
  [rw EXCEPT ![turnID] = [status |-> "running", stopReason |-> "",
                          responseText |-> <<>>, thread |-> threadID,
                          internal |-> isInternal, requestText |-> requestText,
                          createdAt |-> CreatedAt(rw), completedAt |-> CreatedAt(rw)]]
\* the INSERT of CreateTurn: status "running" as both handlers pass it, and
\* completed_at NULL, written 0
CreateTurn(rw, turnID, threadID, requestText, isInternal) ==
  [rw EXCEPT ![turnID] = [status |-> "running", stopReason |-> "",
                          responseText |-> <<>>, thread |-> threadID,
                          internal |-> isInternal, requestText |-> requestText,
                          createdAt |-> CreatedAt(rw), completedAt |-> 0]]

\* ListTurnsByThread: the rows of the thread, ORDER BY created_at ASC
RECURSIVE TurnsFrom(_, _, _)
TurnsFrom(rw, threadID, after) ==
  LET later == {u \in DOMAIN rw : rw[u].thread = threadID /\ rw[u].createdAt > after}
  IN IF later = {} THEN <<>>
     ELSE LET u == CHOOSE v \in later : \A w \in later : rw[v].createdAt <= rw[w].createdAt
          IN <<rw[u]>> \o TurnsFrom(rw, threadID, rw[u].createdAt)

ListTurnsByThread(rw, threadID) == TurnsFrom(rw, threadID, 0)

FinalizeTurnDropped(rw, turnID, responseText, status, stopReason) == rw

FinalizeTurn(rw, turnID, responseText, status, stopReason) ==
  IF rw[turnID].status = "none" THEN rw
  ELSE [rw EXCEPT ![turnID].responseText = responseText,
                  ![turnID].status = status,
                  ![turnID].stopReason = stopReason,
                  ![turnID].completedAt = CreatedAt(rw)]

RECURSIVE DeltasOf(_)
DeltasOf(evs) ==
  IF evs = <<>> THEN <<>>
  ELSE IF Head(evs).type = "message_delta"
       THEN <<Head(evs).delta>> \o DeltasOf(Tail(evs))
       ELSE DeltasOf(Tail(evs))

-----------------------------------------------------------------------------
\* no call in flight / no operation done yet
NoCall == [op |-> "none"]

Init ==
  /\ pc = [r \in Requests |-> "idle"]
  /\ kind = [r \in Requests |-> "none"]
  /\ thread = [r \in Requests |-> "none"]
  /\ client = [r \in Requests |-> "none"]
  /\ resp = [r \in Requests |-> "none"]
  /\ ctxCancelled = [r \in Requests |-> FALSE]
  /\ disconnected = [r \in Requests |-> FALSE]
  /\ cancelPhase = [r \in Requests |-> "none"]
  /\ cancelResp = [r \in Requests |-> "none"]
  /\ byThread = << >>
  /\ byTurn = << >>
  /\ rows = [r \in Requests |-> NoRow]
  /\ events = [r \in Requests |-> <<>>]
  /\ summary = [t \in Threads |-> NoSummary]
  /\ agg = [r \in Requests |-> <<>>]
  /\ nDeltas = [r \in Requests |-> 0]
  /\ ret = [r \in Requests |-> NoRet]
  /\ ctxSeen = [r \in Requests |-> FALSE]
  /\ fin = [r \in Requests |-> NoFin]
  /\ rl = [r \in Requests |-> "off"]
  /\ respCh = [r \in Requests |-> "none"]
  /\ connClosed = [r \in Requests |-> FALSE]
  /\ waited = [r \in Requests |-> 0]
  /\ permPhase = [r \in Requests |-> "none"]
  /\ permOutcome = [r \in Requests |-> "none"]
  /\ permBy = [r \in Requests |-> "none"]
  /\ permDecider = [r \in Requests |-> "none"]
  /\ permDelivered = [r \in Requests |-> "none"]
  /\ permTimer = [r \in Requests |-> FALSE]
  /\ permLapsed = [r \in Requests |-> FALSE]
  /\ decResp = [r \in Requests |-> "none"]
  /\ frames = [r \in Requests |-> <<>>]
  /\ prompt = [r \in Requests |-> NoText]
  /\ agentsByThread = {}
  /\ restarts = 0
  /\ conn = "free"
  /\ txpc = [w \in Workers |-> "idle"]
  /\ txTurn = [w \in Workers |-> "none"]
  /\ txMax = [w \in Workers |-> 0]
  /\ accepting = TRUE
  /\ mainpc = "serve"
  /\ sdpc = "idle"
  /\ graceExpired = FALSE
  /\ forceWaited = 0
  /\ managedAgents = << >>
  /\ agentMu = "free"
  /\ closed = {}
  /\ wpc = [w \in Workers |-> "idle"]
  /\ wThread = [w \in Workers |-> "none"]
  /\ wNew = [w \in Workers |-> "none"]
  /\ wAgent = [w \in Workers |-> "none"]
  /\ jpc = "idle"
  /\ jTodo = {}
  /\ jCur = "none"
  /\ jActive = FALSE
  /\ jItems = {}
  /\ pending = {}
  /\ callpc = [w \in Workers |-> "idle"]
  /\ callRes = [w \in Workers |-> "none"]
  /\ callCh = [w \in Workers |-> "empty"]
  /\ callCtx = [w \in Workers |-> FALSE]
  /\ sent = {}
  /\ closepc = "open"
  /\ tpc = "idle"
  /\ tCtx = FALSE
  /\ child = "none"
  /\ cancelAnswered = FALSE
  /\ stdinClosed = FALSE
  /\ tLog = <<>>
  /\ tTimer = 0
  /\ tElapsed = 0
  /\ deltaErr = [r \in Requests |-> FALSE]
  /\ epc = "idle"
  /\ attempt = 0
  /\ eRuntime = "none"
  /\ eErr = [kind |-> "nil", code |-> 0, message |-> ""]
  /\ eRet = NoRet
  /\ eResets = 0
  /\ eCreated = 0
  /\ eCalls = 0
  /\ eDeltas = 0
  /\ eCtx = FALSE
  /\ eQueue = <<>>
  /\ eSeen = <<>>
  /\ ePrompt = NoCall
  /\ usedTurns = <<>>
  /\ relArg = NoCall
  /\ lastOp = NoCall
  /\ wfpc = "none"
  /\ wfRet = "none"
  /\ wfCtx = FALSE
  /\ wfTick = FALSE
  /\ wfSince = 0
  /\ wfLate = 0
  /\ cmIn = NoCall
  /\ cmOut = NoCall
  /\ cmAgain = NoCall

-----------------------------------------------------------------------------
(* httpapi.Server: handleCreateTurnStream and handleCompactThread          *)

ActivePcs == {"activate", "create", "started", "fake", "fakeDelta", "acpInit",
              "acpNew", "acpPrompt", "acpTerm", "post", "finalize", "defer"}
CallPcs == {"acpInit", "acpNew", "acpPrompt"}

\* streamWriter.Event fails once the client is gone; appendOnlyEvent writes no frame
EmitFails(r) == kind[r] = "turn" /\ disconnected[r]

\* emit: the event is appended unless storage fails (ok is whether AppendEvent
\* succeeds); the error goes to the caller and no frame is written
Persisted(ev, r, ok, eventType, delta) ==
  IF ok THEN AppendEvent(ev, r, eventType, delta) ELSE ev

FrameUnpersisted(fr, r, ok, eventType, delta) ==
  IF kind[r] = "turn" /\ ~disconnected[r]
  THEN [fr EXCEPT ![r] = Append(@, [type |-> eventType, delta |-> delta])]
  ELSE fr

\* emit goes on with streamWriter.Event after AppendEvent has succeeded: the
\* frame carries the event type and the payload that were appended
Frame(fr, r, ok, eventType, delta) ==
  IF ok /\ kind[r] = "turn" /\ ~disconnected[r]
  THEN [fr EXCEPT ![r] = Append(@, [type |-> eventType, delta |-> delta])]
  ELSE fr

\* emit returns an error
EmitErr(r, ok) == ~ok \/ EmitFails(r)

\* onDelta returns an error to a Stream that has not settled what it returns
DeltaFailed(r, failed) == failed /\ ret[r] = NoRet

\* the agent still works on session/prompt: the call is open, or was abandoned
Streaming(r) ==
  \/ pc[r] = "acpPrompt" /\ respCh[r] = "none"
  \/ respCh[r] = "abandoned"

PermPending(r) == permPhase[r] = "open" /\ permOutcome[r] = "none"

\* the permission of r is pending at the instant the turn's context is cancelled
LapseOnCancel(r) ==
  IF PermPending(r) /\ ~ctxCancelled[r] THEN [permLapsed EXCEPT ![r] = TRUE] ELSE permLapsed

ReasonOf(status) ==
  IF status = "completed" THEN StopReasonEndTurn
  ELSE IF status = "cancelled" THEN StopReasonCancelled ELSE "error"

-----------------------------------------------------------------------------
(* The context window: composeContextPrompt and renderContextPrompt. A    *)
(* character of a text is one element of its sequence.                    *)

\* what the user of request r typed, and the instruction of a compact request
InputOf(r) == <<r>>
Instruction == <<"summarize">>

\* the lengths of the headings renderContextPrompt writes
LenSummaryHead == 23
LenEmpty == 7
LenRecentHead == 17
LenNone == 6
LenUser == 6
LenAssistant == 12
LenTurnEnd == 1
LenRecentEnd == 4
LenInputHead == 23

defaultContextRecentTurns == 10

\* contextMaxChars as configured: enough for the headings and one recent turn
\* whose answer is shorter than MaxDeltas characters
ContextMaxChars == 96

RECURSIVE runeLen(_)
RECURSIVE TurnsLen(_)

\* runeLen(renderContextPrompt(summary, recentTurns, currentInput))
RenderLen(summaryText, recentTurns, currentInput) ==
  LenSummaryHead + (IF summaryText = <<>> THEN LenEmpty ELSE Len(summaryText))
  + LenRecentHead + (IF recentTurns = <<>> THEN LenNone ELSE TurnsLen(recentTurns) + LenRecentEnd)
  + LenInputHead + Len(currentInput)

runeLen(text) ==
  IF text.wrapped THEN RenderLen(text.summary, text.recent, text.input) ELSE Len(text.input)

TurnsLen(recentTurns) ==
  IF recentTurns = <<>> THEN 0
  ELSE LenUser + runeLen(Head(recentTurns).requestText) + LenAssistant
       + Len(Head(recentTurns).responseText) + LenTurnEnd + TurnsLen(Tail(recentTurns))

maxInt(a, b) == IF a > b THEN a ELSE b

clampToChars(text, maxChars) ==
  IF Len(text) <= maxChars THEN text ELSE SubSeq(text, 1, maxChars)

truncateFromEnd(text, maxChars) ==
  IF Len(text) <= maxChars THEN text ELSE SubSeq(text, Len(text) - maxChars + 1, Len(text))

\* the loop of composeContextPrompt: the oldest recent turn goes first, then a
\* quarter of the summary, then a quarter of the input from its start; maxChars
\* is at least the length of the headings, so the loop ends by fitting
RECURSIVE FitContextPrompt(_, _, _, _)
FitContextPrompt(summaryText, recentTurns, currentInput, maxChars) ==
  IF RenderLen(summaryText, recentTurns, currentInput) <= maxChars
  THEN [wrapped |-> TRUE, summary |-> summaryText, recent |-> recentTurns,
        input |-> currentInput]
  ELSE IF recentTurns # <<>>
  THEN FitContextPrompt(summaryText, Tail(recentTurns), currentInput, maxChars)
  ELSE IF summaryText # <<>>
  THEN FitContextPrompt(
         clampToChars(summaryText,
                      Len(summaryText) - maxInt(1, Len(summaryText) \div 4)),
         recentTurns, currentInput, maxChars)
  ELSE FitContextPrompt(
         summaryText, recentTurns,
         truncateFromEnd(currentInput,
                         Len(currentInput) - maxInt(1, Len(currentInput) \div 4)),
         maxChars)

\* the first turn of a thread keeps the raw input
composeContextPrompt(summaryText, recentTurns, currentInput, maxChars) ==
  IF summaryText = <<>> /\ recentTurns = <<>>
  THEN Raw(clampToChars(currentInput, maxChars))
  ELSE FitContextPrompt(summaryText, recentTurns, currentInput, maxChars)

RECURSIVE VisibleTurns(_)
VisibleTurns(turns) ==
  IF turns = <<>> THEN <<>>
  ELSE IF Head(turns).internal THEN VisibleTurns(Tail(turns))
       ELSE <<[requestText |-> Head(turns).requestText,
               responseText |-> Head(turns).responseText]>> \o VisibleTurns(Tail(turns))

loadRecentTurnsWithInternal(rw, threadID, recentTurns) ==
  LET all == ListTurnsByThread(rw, threadID)
      shown == [i \in DOMAIN all |-> [requestText |-> all[i].requestText,
                                      responseText |-> all[i].responseText]]
  IN IF Len(shown) > recentTurns
     THEN SubSeq(shown, Len(shown) - recentTurns + 1, Len(shown))
     ELSE shown

\* loadRecentVisibleTurns: the last contextRecentTurns rows that are not internal
loadRecentVisibleTurns(rw, threadID, recentTurns) ==
  LET filtered == VisibleTurns(ListTurnsByThread(rw, threadID))
  IN IF Len(filtered) > recentTurns
     THEN SubSeq(filtered, Len(filtered) - recentTurns + 1, Len(filtered))
     ELSE filtered

\* buildInjectedPrompt and buildCompactPrompt, from the thread's summary and
\* the rows of the turns table
buildInjectedPrompt(rw, sm, threadID, input) ==
  composeContextPrompt(sm[threadID].text,
                       loadRecentVisibleTurns(rw, threadID, defaultContextRecentTurns),
                       input, ContextMaxChars)

RequestTextInjected(r) == prompt[r]

\* RequestText of CreateTurnParams: req.Input for a turn, compactPrompt for a
\* compact request
RequestText(r) == IF kind[r] = "turn" THEN Raw(InputOf(r)) ELSE prompt[r]

getOwnedThreadAny(c, t) == t \in Threads

\* getOwnedThread: the thread exists and its client_id is the caller's
getOwnedThread(c, t) == t \in Threads /\ Owner[t] = c

Begin(r, c, t, k) ==
  /\ pc[r] = "idle"
  /\ r = "r2" => pc["r1"] # "idle"
  /\ kind' = [kind EXCEPT ![r] = k]
  /\ thread' = [thread EXCEPT ![r] = t]
  /\ client' = [client EXCEPT ![r] = c]
  /\ IF ~getOwnedThread(c, t)
     THEN /\ resp' = [resp EXCEPT ![r] = "404"]
          /\ pc' = [pc EXCEPT ![r] = "done"]
          /\ UNCHANGED agentsByThread
          /\ UNCHANGED prompt
     ELSE /\ agentsByThread' = agentsByThread \cup {t}
          /\ prompt' = [prompt EXCEPT ![r] =
                          buildInjectedPrompt(rows, summary, t,
                                              IF k = "turn" THEN InputOf(r) ELSE Instruction)]
          /\ pc' = [pc EXCEPT ![r] = "activate"]
          /\ UNCHANGED resp
  /\ UNCHANGED <<ctxVars, ctlVars, dbVars, strVars, acpVars, permVars, restarts, txVars>>
  /\ UNCHANGED <<frames, auxVars>>

Activate(r) ==
  /\ pc[r] = "activate"
  /\ IF ActivateOk(byThread, thread[r])
     THEN /\ byThread' = MapPut(byThread, thread[r], r)
          /\ byTurn' = MapPut(byTurn, r, thread[r])
          /\ pc' = [pc EXCEPT ![r] = "create"]
          /\ UNCHANGED resp
     ELSE /\ resp' = [resp EXCEPT ![r] = "409"]
          /\ pc' = [pc EXCEPT ![r] = "done"]
          /\ UNCHANGED ctlVars
  /\ UNCHANGED <<kind, thread, client, ctxVars, dbVars, strVars, acpVars, permVars, sysVars, txVars>>
  /\ UNCHANGED <<frames, prompt, auxVars>>

CreateTurnRow(r) ==
  /\ pc[r] = "create"
  /\ IF disconnected[r]
     THEN /\ resp' = [resp EXCEPT ![r] = "500"]
          /\ pc' = [pc EXCEPT ![r] = "defer"]
          /\ UNCHANGED rows
     ELSE /\ rows' = CreateTurn(rows, r, thread[r], RequestText(r), kind[r] = "compact")
          /\ resp' = [resp EXCEPT ![r] = IF kind[r] = "turn" THEN "200" ELSE @]
          /\ pc' = [pc EXCEPT ![r] = "started"]
  /\ UNCHANGED <<kind, thread, client, ctxVars, ctlVars, events, summary, strVars, acpVars,
                 permVars, sysVars, txVars>>
  /\ UNCHANGED <<frames, prompt, auxVars>>

\* emit("turn_started"), then the provider's Stream is entered
EmitStarted(r, ok) ==
  /\ pc[r] = "started"
  /\ events' = Persisted(events, r, ok, "turn_started", 0)
  /\ frames' = Frame(frames, r, ok, "turn_started", 0)
  /\ UNCHANGED <<prompt, auxVars>>
  /\ IF EmitErr(r, ok)
     THEN /\ fin' = [fin EXCEPT ![r] = [status |-> "failed", stopReason |-> "error"]]
          /\ pc' = [pc EXCEPT ![r] = "finalize"]
          /\ UNCHANGED rl
     ELSE /\ pc' = [pc EXCEPT ![r] = IF AgentOf[thread[r]] = "fake" THEN "fake" ELSE "acpInit"]
          /\ rl' = [rl EXCEPT ![r] = IF AgentOf[thread[r]] = "fake" THEN @ ELSE "run"]
          /\ UNCHANGED fin
  /\ UNCHANGED <<kind, thread, client, resp, ctxVars, ctlVars, rows, summary, agg, nDeltas,
                 ret, ctxSeen, respCh, connClosed, permVars, sysVars, txVars>>
  /\ UNCHANGED waited

SummaryDueAlways(finalStatus, finalReason) == TRUE
\* handleCompactThread stores the new summary for this final status and reason
SummaryDue(finalStatus, finalReason) ==
  finalStatus = "completed" /\ finalReason = StopReasonEndTurn

\* after Stream: the error and turn_completed events, the summary of a compact turn
PostStream(r, okError, okCompleted) ==
  /\ pc[r] = "post"
  /\ LET failed == ret[r].err # "nil"
         st0 == IF failed THEN "failed"
                ELSE IF ret[r].reason = StopReasonCancelled THEN "cancelled" ELSE "completed"
         ev1 == IF failed THEN Persisted(events, r, okError, "error", 0) ELSE events
         fr1 == IF failed THEN Frame(frames, r, okError, "error", 0) ELSE frames
         st == IF EmitErr(r, okCompleted) /\ st0 = "completed" THEN "failed" ELSE st0
     IN /\ events' = Persisted(ev1, r, okCompleted, "turn_completed", 0)
        /\ frames' = Frame(fr1, r, okCompleted, "turn_completed", 0)
        /\ fin' = [fin EXCEPT ![r] = [status |-> st, stopReason |-> ReasonOf(st)]]
        /\ summary' = IF kind[r] = "compact" /\ SummaryDue(st, ReasonOf(st))
                      THEN [summary EXCEPT ![thread[r]] = [turn |-> r, text |-> agg[r]]]
                      ELSE summary
  /\ waited' = [waited EXCEPT ![r] = 0]
  /\ UNCHANGED <<prompt, auxVars>>
  /\ pc' = [pc EXCEPT ![r] = "finalize"]
  /\ UNCHANGED <<kind, thread, client, resp, ctxVars, ctlVars, rows, agg, nDeltas, ret, ctxSeen,
                 rl, respCh, connClosed, permVars, sysVars, txVars>>

Finalize(r) ==
  /\ pc[r] = "finalize"
  /\ rows' = FinalizeTurn(rows, r, agg[r], fin[r].status, fin[r].stopReason)
  /\ resp' = [resp EXCEPT ![r] = IF kind[r] = "turn" THEN @
                                 ELSE IF fin[r].status = "completed" THEN "200" ELSE "500"]
  /\ pc' = [pc EXCEPT ![r] = "defer"]
  /\ UNCHANGED <<kind, thread, client, ctxVars, ctlVars, events, summary, strVars, acpVars,
                 permVars, sysVars, txVars>>
  /\ UNCHANGED <<frames, prompt, auxVars>>

\* the deferred cancelTurn() and s.turns.Release(thread.ThreadID, turnID)
ReleaseSkipped(r) ==
  /\ pc[r] = "defer"
  /\ pc' = [pc EXCEPT ![r] = "done"]
  /\ UNCHANGED <<kind, thread, client, resp, ctxVars, ctlVars, dbVars, strVars, acpVars,
                 permVars, sysVars, txVars>>
  /\ UNCHANGED <<frames, prompt, auxVars>>

Deferred(r) ==
  /\ pc[r] = "defer"
  /\ permLapsed' = LapseOnCancel(r)
  /\ ctxCancelled' = [ctxCancelled EXCEPT ![r] = TRUE]
  /\ byThread' = ReleaseByThread(byThread, byTurn, thread[r], r)
  /\ byTurn' = ReleaseByTurn(byTurn, thread[r], r)
  /\ pc' = [pc EXCEPT ![r] = "done"]
  /\ UNCHANGED <<kind, thread, client, resp, disconnected, cancelPhase, cancelResp, dbVars,
                 strVars, acpVars,
                 permPhase, permOutcome, permBy, permDecider, permDelivered, permTimer, decResp,
                 sysVars, txVars>>
  /\ UNCHANGED <<frames, prompt, auxVars>>

\* where the provider session of u stands when POST /v1/turns/{u}/cancel arrives
PhaseOf(u) ==
  IF ctxCancelled[u] THEN "late"
  ELSE IF PermPending(u) /\ Streaming(u) THEN "permission"
  ELSE IF pc[u] \in {"fake", "fakeDelta", "acpInit", "acpNew"} THEN pc[u]
  ELSE IF pc[u] = "acpPrompt" /\ respCh[u] = "none" THEN "acpPrompt"
  ELSE "late"

TurnActiveAlways(bu, turnID) == TRUE

\* TurnController.Cancel finds the entry of the turn in byTurn
TurnActive(bu, turnID) == turnID \in DOMAIN bu

\* handleCancelTurn: GetTurn, getOwnedThread, then TurnController.Cancel, which
\* calls the cancel function registered for the turn
CancelTurn(c, u) ==
  /\ pc[u] # "idle"
  /\ IF rows[u].status = "none" \/ ~getOwnedThread(c, rows[u].thread)
     THEN /\ cancelResp' = [cancelResp EXCEPT ![u] = "404"]
          /\ UNCHANGED <<ctxCancelled, cancelPhase, permLapsed>>
     ELSE IF ~TurnActive(byTurn, u)
     THEN /\ cancelResp' = [cancelResp EXCEPT ![u] = "409"]
          /\ UNCHANGED <<ctxCancelled, cancelPhase, permLapsed>>
     ELSE /\ cancelResp' = [cancelResp EXCEPT ![u] = "200"]
          /\ cancelPhase' = [cancelPhase EXCEPT ![u] = IF @ = "none" THEN PhaseOf(u) ELSE @]
          /\ permLapsed' = LapseOnCancel(u)
          /\ ctxCancelled' = [ctxCancelled EXCEPT ![u] = TRUE]
  /\ UNCHANGED <<reqVars, disconnected, ctlVars, dbVars, strVars, acpVars, permPhase,
                 permOutcome, permBy, permDecider, permDelivered, permTimer, decResp,
                 sysVars, txVars>>
  /\ UNCHANGED <<frames, prompt, auxVars>>

\* the cancel request comes from the owner of a turn that is active and was
\* not cancelled before
CancelAccepted(c, u) ==
  /\ rows[u].status # "none"
  /\ getOwnedThread(c, rows[u].thread)
  /\ TurnActive(byTurn, u)
  /\ ~ctxCancelled[u]

\* the client closes the connection: r.Context() and the derived turnCtx are cancelled
Disconnect(r) ==
  /\ pc[r] \in ActivePcs
  /\ ~disconnected[r]
  /\ disconnected' = [disconnected EXCEPT ![r] = TRUE]
  /\ permLapsed' = LapseOnCancel(r)
  /\ ctxCancelled' = [ctxCancelled EXCEPT ![r] = TRUE]
  /\ UNCHANGED <<reqVars, cancelPhase, cancelResp, ctlVars, dbVars, strVars, acpVars, permPhase,
                 permOutcome, permBy, permDecider, permDelivered, permTimer, decResp, sysVars, txVars>>
  /\ UNCHANGED <<frames, prompt, auxVars>>

-----------------------------------------------------------------------------
(* agents.FakeAgent.Stream                                                 *)

FakeTick(r) ==
  /\ pc[r] = "fake"
  /\ nDeltas[r] < MaxDeltas
  /\ IF ctxCancelled[r]
     THEN /\ ret' = [ret EXCEPT ![r] = [reason |-> StopReasonCancelled, err |-> "nil"]]
          /\ ctxSeen' = [ctxSeen EXCEPT ![r] = TRUE]
          /\ pc' = [pc EXCEPT ![r] = "post"]
     ELSE /\ pc' = [pc EXCEPT ![r] = "fakeDelta"]
          /\ UNCHANGED <<ret, ctxSeen>>
  /\ UNCHANGED <<kind, thread, client, resp, ctxVars, ctlVars, dbVars, agg, nDeltas, fin,
                 acpVars, permVars, sysVars, txVars>>
  /\ UNCHANGED <<frames, prompt, auxVars>>

FakeDelta(r, ok) ==
  /\ pc[r] = "fakeDelta"
  /\ agg' = [agg EXCEPT ![r] = Append(@, nDeltas[r] + 1)]
  /\ nDeltas' = [nDeltas EXCEPT ![r] = @ + 1]
  /\ events' = Persisted(events, r, ok, "message_delta", nDeltas[r] + 1)
  /\ frames' = Frame(frames, r, ok, "message_delta", nDeltas[r] + 1)
  /\ deltaErr' = [deltaErr EXCEPT ![r] = @ \/ DeltaFailed(r, EmitErr(r, ok))]
  /\ UNCHANGED <<prompt, auxButDelta>>
  /\ IF EmitErr(r, ok)
     THEN /\ ret' = [ret EXCEPT ![r] = [reason |-> StopReasonEndTurn, err |-> "emit"]]
          /\ pc' = [pc EXCEPT ![r] = "post"]
     ELSE /\ pc' = [pc EXCEPT ![r] = "fake"]
          /\ UNCHANGED ret
  /\ UNCHANGED <<kind, thread, client, resp, ctxVars, ctlVars, rows, summary, ctxSeen, fin,
                 acpVars, permVars, sysVars, txVars>>

\* the input is used up: the loop ends without looking at ctx again
FakeEnd(r) ==
  /\ pc[r] = "fake"
  /\ nDeltas[r] >= 1
  /\ ret' = [ret EXCEPT ![r] = [reason |-> StopReasonEndTurn, err |-> "nil"]]
  /\ pc' = [pc EXCEPT ![r] = "post"]
  /\ UNCHANGED <<kind, thread, client, resp, ctxVars, ctlVars, dbVars, agg, nDeltas, ctxSeen,
                 fin, acpVars, permVars, sysVars, txVars>>
  /\ UNCHANGED <<frames, prompt, auxVars>>

-----------------------------------------------------------------------------
(* acp.Client.Stream in the handler's goroutine: rpcConn.Call of           *)
(* initialize, session/new and session/prompt                              *)

NextCall(p) == IF p = "acpInit" THEN "acpNew" ELSE "acpPrompt"

StreamAfterCallNoCtx(p, callErr, ctxErr) == [reason |-> StopReasonEndTurn, err |-> callErr]

\* what Stream returns when a call fails: callErr is the error of rpcConn.Call,
\* ctxErr is ctx.Err() != nil, which only the session/prompt branch looks at
StreamAfterCall(p, callErr, ctxErr) ==
  IF p = "acpPrompt" /\ ctxErr
  THEN [reason |-> StopReasonCancelled, err |-> "nil"]
  ELSE [reason |-> StopReasonEndTurn, err |-> callErr]

\* select case response := <-respCh
CallResponse(r) ==
  /\ pc[r] \in CallPcs
  /\ respCh[r] \notin {"none", "abandoned"}
  /\ IF respCh[r] = "ok"
     THEN /\ pc' = [pc EXCEPT ![r] = NextCall(pc[r])]
          /\ respCh' = [respCh EXCEPT ![r] = "none"]
          /\ UNCHANGED <<ret, ctxSeen>>
     ELSE /\ pc' = [pc EXCEPT ![r] = "acpTerm"]
          /\ respCh' = [respCh EXCEPT ![r] = "answered"]
          /\ ret' = [ret EXCEPT ![r] =
                       IF respCh[r] = "rpcerr"
                       THEN StreamAfterCall(pc[r], "rpc", ctxCancelled[r])
                       ELSE [reason |-> respCh[r], err |-> "nil"]]
          /\ ctxSeen' = [ctxSeen EXCEPT ![r] =
                           respCh[r] = "rpcerr" /\ pc[r] = "acpPrompt" /\ ctxCancelled[r]]
  /\ UNCHANGED <<kind, thread, client, resp, ctxVars, ctlVars, dbVars, agg, nDeltas, fin,
                 rl, connClosed, permVars, sysVars, txVars>>
  /\ UNCHANGED waited
  /\ UNCHANGED <<frames, prompt, auxVars>>

\* select case <-ctx.Done()
CallCtxDone(r) ==
  /\ pc[r] \in CallPcs
  /\ ctxCancelled[r]
  /\ ret' = [ret EXCEPT ![r] = StreamAfterCall(pc[r], "canceled", TRUE)]
  /\ ctxSeen' = [ctxSeen EXCEPT ![r] = TRUE]
  /\ respCh' = [respCh EXCEPT ![r] = IF pc[r] = "acpPrompt" THEN "abandoned" ELSE "answered"]
  /\ pc' = [pc EXCEPT ![r] = "acpTerm"]
  /\ UNCHANGED <<kind, thread, client, resp, ctxVars, ctlVars, dbVars, agg, nDeltas, fin,
                 rl, connClosed, permVars, sysVars, txVars>>
  /\ UNCHANGED waited
  /\ UNCHANGED <<frames, prompt, auxVars>>

\* select case <-c.done: the read loop closed the connection on a handler error
CallConnDone(r) ==
  /\ pc[r] \in CallPcs
  /\ connClosed[r]
  /\ ret' = [ret EXCEPT ![r] = StreamAfterCall(pc[r], "rpc", ctxCancelled[r])]
  /\ ctxSeen' = [ctxSeen EXCEPT ![r] = pc[r] = "acpPrompt" /\ ctxCancelled[r]]
  /\ respCh' = [respCh EXCEPT ![r] = "answered"]
  /\ pc' = [pc EXCEPT ![r] = "acpTerm"]
  /\ UNCHANGED <<kind, thread, client, resp, ctxVars, ctlVars, dbVars, agg, nDeltas, fin,
                 rl, connClosed, permVars, sysVars, txVars>>
  /\ UNCHANGED waited
  /\ UNCHANGED <<frames, prompt, auxVars>>

\* seconds: the timeout of sendSessionCancel, the wait of terminateProcess for
\* the child to exit before it is killed, and its wait after the kill
SessionCancelTimeout == 1
KillAfter == 2
WaitAfterKill == 2

\* the session/prompt branch found ctx.Err() != nil and called sendSessionCancel
SentSessionCancel(r) == ctxSeen[r] /\ ret[r].reason = StopReasonCancelled

\* sendSessionCancel, the deferred terminateProcess and conn.Close, then return;
\* a is the time session/cancel took, b the time the child took to exit or to
\* be killed, c the time it took to be reaped after the kill; waited is the
\* time Stream took to return, which the handler has in hand until it goes on
AcpReturn(r) ==
  /\ pc[r] = "acpTerm"
  /\ \E a \in {0, SessionCancelTimeout}, b \in {0, KillAfter}, c \in {0, WaitAfterKill} :
       /\ ~SentSessionCancel(r) => a = 0
       /\ b < KillAfter => c = 0
       /\ waited' = [waited EXCEPT ![r] = a + b + c]
  /\ connClosed' = [connClosed EXCEPT ![r] = TRUE]
  /\ pc' = [pc EXCEPT ![r] = "post"]
  /\ UNCHANGED <<kind, thread, client, resp, ctxVars, ctlVars, dbVars, strVars, rl, respCh,
                 permVars, sysVars, txVars>>
  /\ UNCHANGED <<frames, prompt, auxVars>>

-----------------------------------------------------------------------------
(* rpcConn.readLoop of the connection of r, with the notification handler  *)
(* (onDelta) and the request handler (the permission bridge) it runs       *)

PromptAnswers == {"end_turn", "cancelled", "rpcerr"}
StartAnswers == {"ok", "rpcerr"}

\* dispatchResponse: the agent answers the call that is waiting
AgentRespond(r, v) ==
  /\ rl[r] = "run"
  /\ ~connClosed[r]
  /\ pc[r] \in CallPcs
  /\ respCh[r] = "none"
  /\ v \in IF pc[r] = "acpPrompt" THEN PromptAnswers ELSE StartAnswers
  /\ respCh' = [respCh EXCEPT ![r] = v]
  /\ UNCHANGED <<reqVars, ctxVars, ctlVars, dbVars, strVars, rl, connClosed, permVars,
                 sysVars, txVars>>
  /\ UNCHANGED waited
  /\ UNCHANGED <<frames, prompt, auxVars>>

\* session/update: onDelta starts with aggregated.WriteString(delta)
ReadDelta(r) ==
  /\ rl[r] = "run"
  /\ Streaming(r)
  /\ nDeltas[r] < MaxDeltas
  /\ agg' = [agg EXCEPT ![r] = Append(@, nDeltas[r] + 1)]
  /\ nDeltas' = [nDeltas EXCEPT ![r] = @ + 1]
  /\ rl' = [rl EXCEPT ![r] = "delta"]
  /\ UNCHANGED <<reqVars, ctxVars, ctlVars, dbVars, ret, ctxSeen, fin, respCh, connClosed,
                 permVars, sysVars, txVars>>
  /\ UNCHANGED waited
  /\ UNCHANGED <<frames, prompt, auxVars>>

\* reply to the agent, or the end of the read loop when a handler failed
AfterHandler(r, failed) == IF failed \/ connClosed[r] THEN "stopped" ELSE "run"

\* onDelta goes on with emit("message_delta"), which starts with AppendEvent;
\* its error ends the read loop; appendOnlyEvent of a compact turn ends here
EmitDelta(r, ok) ==
  /\ rl[r] = "delta"
  /\ events' = Persisted(events, r, ok, "message_delta", nDeltas[r])
  /\ rl' = [rl EXCEPT ![r] = IF ~ok THEN "stopped"
                             ELSE IF kind[r] = "turn" THEN "deltaWrite" ELSE "run"]
  /\ connClosed' = [connClosed EXCEPT ![r] = @ \/ ~ok]
  /\ UNCHANGED <<reqVars, ctxVars, ctlVars, rows, summary, strVars, respCh, permVars,
                 frames, prompt, sysVars, txVars>>
  /\ deltaErr' = [deltaErr EXCEPT ![r] = @ \/ DeltaFailed(r, ~ok)]
  /\ UNCHANGED <<waited, auxButDelta>>

\* emit("message_delta") goes on with streamWriter.Event, in the read loop's
\* goroutine; its error ends the read loop
WriteDelta(r) ==
  /\ rl[r] = "deltaWrite"
  /\ frames' = Frame(frames, r, TRUE, "message_delta", nDeltas[r])
  /\ deltaErr' = [deltaErr EXCEPT ![r] = @ \/ DeltaFailed(r, EmitFails(r))]
  /\ UNCHANGED <<prompt, auxButDelta>>
  /\ rl' = [rl EXCEPT ![r] = IF EmitFails(r) THEN "stopped" ELSE "run"]
  /\ connClosed' = [connClosed EXCEPT ![r] = @ \/ EmitFails(r)]
  /\ UNCHANGED <<reqVars, ctxVars, ctlVars, dbVars, strVars, respCh, permVars,
                 sysVars, txVars>>
  /\ UNCHANGED waited

\* session/request_permission: nextPermissionID, newPendingPermission,
\* registerPermission; a compact turn has no handler in its context
ReadPermission(r) ==
  /\ rl[r] = "run"
  /\ Streaming(r)
  /\ permPhase[r] = "none"
  /\ permDelivered[r] = "none"
  /\ IF kind[r] = "turn"
     THEN /\ permPhase' = [permPhase EXCEPT ![r] = "open"]
          /\ rl' = [rl EXCEPT ![r] = "permEmit"]
          /\ UNCHANGED permDelivered
     ELSE /\ permDelivered' = [permDelivered EXCEPT ![r] = PermissionOutcomeDeclined]
          /\ rl' = [rl EXCEPT ![r] = AfterHandler(r, FALSE)]
          /\ UNCHANGED permPhase
  /\ UNCHANGED <<reqVars, ctxVars, ctlVars, dbVars, strVars, respCh, connClosed,
                 permOutcome, permBy, permDecider, permTimer, permLapsed, decResp, sysVars, txVars>>
  /\ UNCHANGED waited
  /\ UNCHANGED <<frames, prompt, auxVars>>

ResolveAgain(r, outcome, by) ==
  /\ permOutcome' = [permOutcome EXCEPT ![r] = outcome]
  /\ permBy' = [permBy EXCEPT ![r] = by]

\* pendingPermission.Resolve under sync.Once: the first outcome stays
Resolve(r, outcome, by) ==
  /\ permOutcome' = [permOutcome EXCEPT ![r] = IF @ = "none" THEN outcome ELSE @]
  /\ permBy' = [permBy EXCEPT ![r] = IF permOutcome[r] = "none" THEN by ELSE @]

\* emit("permission_required"); on failure Resolve(declined) and return declined
PermEmit(r, ok) ==
  /\ rl[r] = "permEmit"
  /\ events' = Persisted(events, r, ok, "permission_required", 0)
  /\ frames' = Frame(frames, r, ok, "permission_required", 0)
  /\ UNCHANGED <<prompt, auxVars>>
  /\ IF EmitErr(r, ok)
     THEN /\ Resolve(r, PermissionOutcomeDeclined, "emitfail")
          /\ permDelivered' = [permDelivered EXCEPT ![r] = PermissionOutcomeDeclined]
          /\ permPhase' = [permPhase EXCEPT ![r] = "closed"]
          /\ rl' = [rl EXCEPT ![r] = AfterHandler(r, FALSE)]
     ELSE /\ rl' = [rl EXCEPT ![r] = "permWait"]
          /\ UNCHANGED <<permOutcome, permBy, permDelivered, permPhase>>
  /\ UNCHANGED <<reqVars, ctxVars, ctlVars, rows, summary, strVars, respCh, connClosed,
                 permDecider, permTimer, permLapsed, decResp, sysVars, txVars>>
  /\ UNCHANGED waited

\* timer.C of waitPermissionOutcome becomes ready after permissionTimeout
TimerFire(r) ==
  /\ rl[r] = "permWait"
  /\ ~permTimer[r]
  /\ permTimer' = [permTimer EXCEPT ![r] = TRUE]
  /\ permLapsed' = [permLapsed EXCEPT ![r] = @ \/ permOutcome[r] = "none"]
  /\ UNCHANGED <<reqVars, ctxVars, ctlVars, dbVars, strVars, acpVars, permPhase, permOutcome,
                 permBy, permDecider, permDelivered, decResp, sysVars, txVars>>
  /\ UNCHANGED <<frames, prompt, auxVars>>

TimeoutOutcomeApproved == "approved"

\* the outcome waitPermissionOutcome resolves with on timer.C and on ctx.Done()
TimeoutOutcome == PermissionOutcomeDeclined

\* waitPermissionOutcome selects timer.C or ctx.Done(): Resolve(declined), which
\* does nothing when a decision was committed in the meantime
PermWait(r) ==
  /\ rl[r] = "permWait"
  /\ permTimer[r] \/ ctxCancelled[r]
  /\ Resolve(r, TimeoutOutcome, IF permTimer[r] THEN "timeout" ELSE "cancel")
  /\ rl' = [rl EXCEPT ![r] = "permDrain"]
  /\ UNCHANGED <<reqVars, ctxVars, ctlVars, dbVars, strVars, respCh, connClosed, permPhase,
                 permDecider, permDelivered, permTimer, permLapsed, decResp, sysVars, txVars>>
  /\ UNCHANGED waited
  /\ UNCHANGED <<frames, prompt, auxVars>>

\* the committed outcome is read from pending.ch, in the select or after
\* Resolve; the handler returns it and the deferred unregisterPermission runs
PermDeliver(r) ==
  /\ rl[r] \in {"permWait", "permDrain"}
  /\ permOutcome[r] # "none"
  /\ permDelivered' = [permDelivered EXCEPT ![r] = permOutcome[r]]
  /\ permPhase' = [permPhase EXCEPT ![r] = "closed"]
  /\ rl' = [rl EXCEPT ![r] = AfterHandler(r, FALSE)]
  /\ UNCHANGED <<reqVars, ctxVars, ctlVars, dbVars, strVars, respCh, connClosed, permOutcome,
                 permBy, permDecider, permTimer, permLapsed, decResp, sysVars, txVars>>
  /\ UNCHANGED waited
  /\ UNCHANGED <<frames, prompt, auxVars>>

PermissionOwned(clientID, pendingClient) == clientID = pendingClient

DecisionUnchecked(c, r, o) ==
  /\ permPhase[r] # "none"
  /\ permOutcome' = [permOutcome EXCEPT ![r] = o]
  /\ permBy' = [permBy EXCEPT ![r] = "decision"]
  /\ permDecider' = [permDecider EXCEPT ![r] = c]
  /\ decResp' = [decResp EXCEPT ![r] = "200"]
  /\ UNCHANGED <<reqVars, ctxVars, ctlVars, dbVars, strVars, acpVars, permPhase,
                 permDelivered, permTimer, permLapsed, sysVars, txVars>>
  /\ UNCHANGED <<frames, prompt, auxVars>>

\* handlePermissionDecision with a valid outcome: resolvePermission looks the
\* permission up, compares the client, then Resolve tells whether it was first
Decision(c, r, o) ==
  /\ permPhase[r] # "none"
  /\ IF permPhase[r] # "open" \/ ~PermissionOwned(c, client[r])
     THEN /\ decResp' = [decResp EXCEPT ![r] = "404"]
          /\ UNCHANGED <<permOutcome, permBy, permDecider>>
     ELSE IF permOutcome[r] # "none"
     THEN /\ decResp' = [decResp EXCEPT ![r] = "409"]
          /\ UNCHANGED <<permOutcome, permBy, permDecider>>
     ELSE /\ Resolve(r, o, "decision")
          /\ permDecider' = [permDecider EXCEPT ![r] = c]
          /\ decResp' = [decResp EXCEPT ![r] = "200"]
  /\ UNCHANGED <<reqVars, ctxVars, ctlVars, dbVars, strVars, acpVars, permPhase,
                 permDelivered, permTimer, permLapsed, sysVars, txVars>>
  /\ UNCHANGED <<frames, prompt, auxVars>>

\* the decision comes from the owner of a permission that is registered and
\* not resolved
DecisionAccepted(c, r) ==
  /\ permPhase[r] = "open"
  /\ PermissionOwned(c, client[r])
  /\ permOutcome[r] = "none"

\* ReadBytes fails on the closed pipe: closeWithError, the loop returns
ReaderStop(r) ==
  /\ rl[r] = "run"
  /\ connClosed[r]
  /\ rl' = [rl EXCEPT ![r] = "stopped"]
  /\ UNCHANGED <<reqVars, ctxVars, ctlVars, dbVars, strVars, respCh, connClosed, permVars,
                 sysVars, txVars>>
  /\ UNCHANGED waited
  /\ UNCHANGED <<frames, prompt, auxVars>>

-----------------------------------------------------------------------------
(* The process stops and is started again on the same database: handlers   *)
(* and read loops are gone, NewTurnController and httpapi.New build empty  *)
(* maps, the turns and events tables are as they were left.                *)

Killed(r) == pc[r] \in ActivePcs

Restart ==
  /\ restarts < MaxRestarts
  /\ pc["r1"] # "idle"
  /\ restarts' = restarts + 1
  /\ pc' = [r \in Requests |-> IF Killed(r) THEN "killed" ELSE pc[r]]
  /\ rl' = [r \in Requests |-> IF rl[r] = "off" THEN "off" ELSE "stopped"]
  /\ byThread' = << >>
  /\ byTurn' = << >>
  /\ agentsByThread' = {}
  /\ permPhase' = [r \in Requests |-> IF permPhase[r] = "open" THEN "closed" ELSE permPhase[r]]
  /\ permTimer' = [r \in Requests |-> FALSE]
  /\ agg' = [r \in Requests |-> IF Killed(r) THEN <<>> ELSE agg[r]]
  /\ nDeltas' = [r \in Requests |-> IF Killed(r) THEN 0 ELSE nDeltas[r]]
  /\ ret' = [r \in Requests |-> IF Killed(r) THEN NoRet ELSE ret[r]]
  /\ fin' = [r \in Requests |-> IF Killed(r) THEN NoFin ELSE fin[r]]
  /\ respCh' = [r \in Requests |-> IF Killed(r) THEN "none" ELSE respCh[r]]
  /\ connClosed' = [r \in Requests |-> IF Killed(r) THEN FALSE ELSE connClosed[r]]
  /\ UNCHANGED <<kind, thread, client, resp, ctxVars, dbVars, ctxSeen, permOutcome, permBy,
                 permDecider, permDelivered, permLapsed, decResp, txVars>>
  /\ UNCHANGED waited
  /\ UNCHANGED <<frames, prompt, auxVars>>

Next ==
  \/ \E r \in Solo, c \in Clients, t \in Threads \cup {NoThread}, k \in {"turn", "compact"} :
        Begin(r, c, t, k)
  \/ \E r \in Solo : Activate(r)
  \/ \E r \in Solo : CreateTurnRow(r)
  \/ \E r \in Solo : EmitStarted(r, TRUE)
  \/ \E r \in Solo : FakeTick(r)
  \/ \E r \in Solo : FakeDelta(r, TRUE)
  \/ \E r \in Solo : FakeEnd(r)
  \/ \E r \in Solo : CallResponse(r)
  \/ \E r \in Solo : CallCtxDone(r)
  \/ \E r \in Solo : CallConnDone(r)
  \/ \E r \in Solo : AcpReturn(r)
  \/ \E r \in Solo : PostStream(r, TRUE, TRUE)
  \/ \E r \in Solo : Finalize(r)
  \/ \E r \in Solo : Deferred(r)
  \/ \E r \in Solo : Disconnect(r)
  \/ \E c \in Clients, u \in Solo : CancelAccepted(c, u) /\ CancelTurn(c, u)
  \/ \E r \in Solo, v \in PromptAnswers \cup StartAnswers : AgentRespond(r, v)
  \/ \E r \in Solo : ReadDelta(r)
  \/ \E r \in Solo : EmitDelta(r, TRUE)
  \/ \E r \in Solo : WriteDelta(r)
  \/ \E r \in Solo : ReadPermission(r)
  \/ \E r \in Solo : PermEmit(r, TRUE)
  \/ \E r \in Solo : TimerFire(r)
  \/ \E r \in Solo : PermWait(r)
  \/ \E r \in Solo : PermDeliver(r)
  \/ \E c \in Clients, r \in Solo, o \in Outcomes : DecisionAccepted(c, r) /\ Decision(c, r, o)
  \/ \E r \in Solo : ReaderStop(r)

\* one request, followed through every provider; the cancel requests and the
\* decisions are those the server accepts
Spec == Init /\ [][Next]_vars

NextApi ==
  \/ \E r \in Solo, c \in Clients, t \in {"t1", NoThread}, k \in {"turn", "compact"} :
        Begin(r, c, t, k)
  \/ \E r \in Solo : Activate(r)
  \/ \E r \in Solo : CreateTurnRow(r)
  \/ \E r \in Solo : EmitStarted(r, TRUE)
  \/ \E r \in Solo : CallResponse(r)
  \/ \E r \in Solo : CallCtxDone(r)
  \/ \E r \in Solo : AcpReturn(r)
  \/ \E r \in Solo : PostStream(r, TRUE, TRUE)
  \/ \E r \in Solo : Finalize(r)
  \/ \E r \in Solo : Deferred(r)
  \/ \E r \in Solo : Disconnect(r)
  \/ \E c \in Clients, u \in Solo : CancelTurn(c, u)
  \/ \E r \in Solo, v \in PromptAnswers \cup StartAnswers : AgentRespond(r, v)
  \/ \E r \in Solo : ReadPermission(r)
  \/ \E r \in Solo : PermEmit(r, TRUE)
  \/ \E r \in Solo : TimerFire(r)
  \/ \E r \in Solo : PermWait(r)
  \/ \E r \in Solo : PermDeliver(r)
  \/ \E c \in Clients, r \in Solo, o \in Outcomes : Decision(c, r, o)
  \/ \E r \in Solo : ReaderStop(r)

\* one request on the ACP thread whose agent sends no text, so that no handler
\* of the read loop fails, with every cancel request and every decision,
\* accepted or not
SpecApi == Init /\ [][NextApi]_vars

NextFault ==
  \/ \E r \in Solo, c \in Clients, t \in Threads \cup {NoThread}, k \in {"turn", "compact"} :
        Begin(r, c, t, k)
  \/ \E r \in Solo : Activate(r)
  \/ \E r \in Solo : CreateTurnRow(r)
  \/ \E r \in Solo, ok \in BOOLEAN : EmitStarted(r, ok)
  \/ \E r \in Solo : FakeTick(r)
  \/ \E r \in Solo, ok \in BOOLEAN : FakeDelta(r, ok)
  \/ \E r \in Solo : FakeEnd(r)
  \/ \E r \in Solo : CallResponse(r)
  \/ \E r \in Solo : CallCtxDone(r)
  \/ \E r \in Solo : CallConnDone(r)
  \/ \E r \in Solo : AcpReturn(r)
  \/ \E r \in Solo, okError \in BOOLEAN, okCompleted \in BOOLEAN :
        PostStream(r, okError, okCompleted)
  \/ \E r \in Solo : Finalize(r)
  \/ \E r \in Solo : Deferred(r)
  \/ \E r \in Solo : Disconnect(r)
  \/ \E c \in Clients, u \in Solo : CancelAccepted(c, u) /\ CancelTurn(c, u)
  \/ \E r \in Solo, v \in PromptAnswers \cup StartAnswers : AgentRespond(r, v)
  \/ \E r \in Solo : ReadDelta(r)
  \/ \E r \in Solo, ok \in BOOLEAN : EmitDelta(r, ok)
  \/ \E r \in Solo : WriteDelta(r)
  \/ \E r \in Solo : ReadPermission(r)
  \/ \E r \in Solo, ok \in BOOLEAN : PermEmit(r, ok)
  \/ \E r \in Solo : TimerFire(r)
  \/ \E r \in Solo : PermWait(r)
  \/ \E r \in Solo : PermDeliver(r)
  \/ \E c \in Clients, r \in Solo, o \in Outcomes : DecisionAccepted(c, r) /\ Decision(c, r, o)
  \/ \E r \in Solo : ReaderStop(r)

\* one request, followed through every provider, with a storage whose
\* AppendEvent may fail
SpecFault == Init /\ [][NextFault]_vars

NextPair ==
  \/ \E r \in Requests, c \in Clients, t \in FakeThreads, k \in {"turn", "compact"} :
        (r = "r1" => t = "t2") /\ Begin(r, c, t, k)
  \/ \E r \in Requests : Activate(r)
  \/ \E r \in Requests : CreateTurnRow(r)
  \/ \E r \in Requests : EmitStarted(r, TRUE)
  \/ \E r \in Requests : FakeTick(r)
  \/ \E r \in Requests : FakeDelta(r, TRUE)
  \/ \E r \in Requests : FakeEnd(r)
  \/ \E r \in Requests : PostStream(r, TRUE, TRUE)
  \/ \E r \in Requests : Finalize(r)
  \/ \E r \in Requests : Deferred(r)
  \/ \E r \in Requests : Disconnect(r)
  \/ \E c \in Clients, u \in Requests : CancelAccepted(c, u) /\ CancelTurn(c, u)
  \/ Restart

\* two concurrent requests on the threads of the fake provider, with restarts;
\* the first request is on t2, the second on the same thread or on the other
SpecPair == Init /\ [][NextPair]_vars

-----------------------------------------------------------------------------
(* storage.Store.AppendEvent statement by statement, called by concurrent  *)
(* goroutines; the pool holds the single connection of SetMaxOpenConns(1)  *)

PoolIdleAlways(c) == TRUE

PoolIdle(c) == c = "free"

\* AppendEvent is called; the caller waits for the connection
AppendCall(w, u) ==
  /\ txpc[w] = "idle"
  /\ Len(events["r1"]) + Len(events["r2"])
       + Cardinality({x \in Workers : txpc[x] # "idle"}) < MaxEvents
  /\ txpc' = [txpc EXCEPT ![w] = "wait"]
  /\ txTurn' = [txTurn EXCEPT ![w] = u]
  /\ UNCHANGED <<reqVars, ctxVars, ctlVars, dbVars, strVars, acpVars, permVars, sysVars,
                 conn, txMax>>
  /\ UNCHANGED <<frames, prompt, auxVars>>

\* s.db.BeginTx
BeginTx(w) ==
  /\ txpc[w] = "wait"
  /\ PoolIdle(conn)
  /\ conn' = w
  /\ txpc' = [txpc EXCEPT ![w] = "select"]
  /\ UNCHANGED <<reqVars, ctxVars, ctlVars, dbVars, strVars, acpVars, permVars, sysVars,
                 txTurn, txMax>>
  /\ UNCHANGED <<frames, prompt, auxVars>>

\* SELECT COALESCE(MAX(seq), 0) FROM events WHERE turn_id = ?
SelectMaxSeq(w) ==
  /\ txpc[w] = "select"
  /\ txMax' = [txMax EXCEPT ![w] = MaxSeq(events[txTurn[w]])]
  /\ txpc' = [txpc EXCEPT ![w] = "insert"]
  /\ UNCHANGED <<reqVars, ctxVars, ctlVars, dbVars, strVars, acpVars, permVars, sysVars,
                 conn, txTurn>>
  /\ UNCHANGED <<frames, prompt, auxVars>>

\* INSERT INTO events with nextSeq := maxSeq + 1
InsertEvent(w) ==
  /\ txpc[w] = "insert"
  /\ events' = [events EXCEPT ![txTurn[w]] =
                  Append(@, [seq |-> NextSeq(txMax[w]), type |-> "message_delta", delta |-> 0])]
  /\ txpc' = [txpc EXCEPT ![w] = "commit"]
  /\ UNCHANGED <<reqVars, ctxVars, ctlVars, rows, summary, strVars, acpVars, permVars,
                 sysVars, conn, txTurn, txMax>>
  /\ UNCHANGED <<frames, prompt, auxVars>>

\* tx.Commit: the connection goes back to the pool
Commit(w) ==
  /\ txpc[w] = "commit"
  /\ conn' = "free"
  /\ txpc' = [txpc EXCEPT ![w] = "idle"]
  /\ txTurn' = [txTurn EXCEPT ![w] = "none"]
  /\ txMax' = [txMax EXCEPT ![w] = 0]
  /\ UNCHANGED <<reqVars, ctxVars, ctlVars, dbVars, strVars, acpVars, permVars, sysVars>>
  /\ UNCHANGED <<frames, prompt, auxVars>>

NextStore ==
  \/ \E w \in Workers, u \in Requests : AppendCall(w, u)
  \/ \E w \in Workers : BeginTx(w)
  \/ \E w \in Workers : SelectMaxSeq(w)
  \/ \E w \in Workers : InsertEvent(w)
  \/ \E w \in Workers : Commit(w)

\* the events table under concurrent writers
SpecStore == Init /\ [][NextStore]_vars

-----------------------------------------------------------------------------
(* main and gracefulShutdown: main serves until ListenAndServe returns and *)
(* then runs its deferred handler.Close and store.Close; a goroutine waits *)
(* for the signal and then runs gracefulShutdown                           *)

\* the timeout of forceCtx, in seconds
ForceWait == 2

\* a handler holds its connection until it returns
HandlersRunning == \E r \in Requests : pc[r] \in ActivePcs

\* main has not returned: the goroutines of the process still run
ProcessAlive == mainpc # "exit"

\* handler.Close has run: closeAllThreadAgents tore down every cached provider
AgentsClosed == mainpc \in {"closeStore", "exit"}

\* store.Close has run
StoreClosed == mainpc = "exit"

\* gracefulShutdown is between its call of srv.Shutdown and its return
Draining == sdpc \in {"shutdown", "drain", "force"}

\* TurnController.WaitForIdle: nil when byTurn is empty at a check, else the
\* context's error once the context is done, else it waits for the next tick
WaitForIdle(bu, ctxDone) ==
  IF DOMAIN bu = {} THEN "nil" ELSE IF ctxDone THEN "err" ELSE "wait"

CancelAllTargetsFirst(bu) == {CHOOSE u \in DOMAIN bu : TRUE}

\* TurnController.CancelAll: the cancel functions of every entry of byTurn
CancelAllTargets(bu) == DOMAIN bu

\* SIGINT or SIGTERM: ctx.Done wakes the goroutine that calls gracefulShutdown
Signal ==
  /\ ProcessAlive
  /\ sdpc = "idle"
  /\ sdpc' = "start"
  /\ UNCHANGED <<coreVars, accepting, mainpc, graceExpired, forceWaited, auxButSd>>

\* gracefulShutdown starts shutdownCtx and calls srv.Shutdown, which closes the
\* listeners first
SrvShutdown ==
  /\ ProcessAlive
  /\ sdpc = "start"
  /\ accepting' = FALSE
  /\ sdpc' = "shutdown"
  /\ UNCHANGED <<coreVars, mainpc, graceExpired, forceWaited, auxButSd>>

\* srv.ListenAndServe returns http.ErrServerClosed once Shutdown was called;
\* main logs shutdown.complete and returns into its deferred calls
ListenAndServeReturns ==
  /\ mainpc = "serve"
  /\ ~accepting
  /\ mainpc' = "deferred"
  /\ UNCHANGED <<coreVars, accepting, sdpc, graceExpired, forceWaited, auxButSd>>

\* main's deferred handler.Close: Server.Close stops the janitor and tears down
\* every cached provider
HandlerClose ==
  /\ mainpc = "deferred"
  /\ mainpc' = "closeStore"
  /\ agentsByThread' = {}
  /\ UNCHANGED <<reqVars, ctxVars, ctlVars, dbVars, strVars, acpVars, permVars, frames, prompt,
                 restarts, txVars>>
  /\ UNCHANGED <<accepting, sdpc, graceExpired, forceWaited, auxButSd>>

\* main's deferred store.Close, then the process exits
StoreClose ==
  /\ mainpc = "closeStore"
  /\ mainpc' = "exit"
  /\ UNCHANGED <<coreVars, accepting, sdpc, graceExpired, forceWaited, auxButSd>>

\* shutdownCtx reaches its deadline (shutdownGraceTimeout)
GraceExpire ==
  /\ ProcessAlive
  /\ sdpc \in {"shutdown", "drain"}
  /\ ~graceExpired
  /\ graceExpired' = TRUE
  /\ UNCHANGED <<coreVars, accepting, mainpc, sdpc, forceWaited, auxButSd>>

\* srv.Shutdown returns when every connection is idle or shutdownCtx is done
SrvShutdownReturns ==
  /\ ProcessAlive
  /\ sdpc = "shutdown"
  /\ ~HandlersRunning \/ graceExpired
  /\ sdpc' = "drain"
  /\ UNCHANGED <<coreVars, accepting, mainpc, graceExpired, forceWaited, auxButSd>>

\* turns.WaitForIdle(shutdownCtx) returns nil: gracefulShutdown returns
Drained ==
  /\ ProcessAlive
  /\ sdpc = "drain"
  /\ WaitForIdle(byTurn, graceExpired) = "nil"
  /\ sdpc' = "done"
  /\ UNCHANGED <<coreVars, accepting, mainpc, graceExpired, forceWaited, auxButSd>>

\* turns.WaitForIdle(shutdownCtx) returns the context's error: CancelAll, then
\* forceCtx starts
ForceCancel ==
  /\ ProcessAlive
  /\ sdpc = "drain"
  /\ WaitForIdle(byTurn, graceExpired) = "err"
  /\ ctxCancelled' = [r \in Requests |-> ctxCancelled[r] \/ r \in CancelAllTargets(byTurn)]
  /\ permLapsed' = [r \in Requests |->
                      IF r \in CancelAllTargets(byTurn) /\ PermPending(r) /\ ~ctxCancelled[r]
                      THEN TRUE ELSE permLapsed[r]]
  /\ sdpc' = "force"
  /\ forceWaited' = 0
  /\ UNCHANGED <<reqVars, disconnected, cancelPhase, cancelResp, ctlVars, dbVars, strVars, acpVars,
                 permPhase, permOutcome, permBy, permDecider, permDelivered, permTimer, decResp,
                 frames, prompt, sysVars, txVars>>
  /\ UNCHANGED <<accepting, mainpc, graceExpired, auxButSd>>

\* a second of forceCtx passes while turns.WaitForIdle(forceCtx) waits
ForceTick ==
  /\ ProcessAlive
  /\ sdpc = "force"
  /\ forceWaited < ForceWait
  /\ WaitForIdle(byTurn, FALSE) = "wait"
  /\ forceWaited' = forceWaited + 1
  /\ UNCHANGED <<coreVars, accepting, mainpc, sdpc, graceExpired, auxButSd>>

\* turns.WaitForIdle(forceCtx) returns, and gracefulShutdown with it
ForceReturn ==
  /\ ProcessAlive
  /\ sdpc = "force"
  /\ WaitForIdle(byTurn, forceWaited = ForceWait) # "wait"
  /\ sdpc' = "done"
  /\ UNCHANGED <<coreVars, accepting, mainpc, graceExpired, forceWaited, auxButSd>>

NextShutdown ==
  \/ \E r \in Requests, c \in Clients :
        /\ accepting
        /\ Begin(r, c, IF r = "r1" THEN "t2" ELSE "t3", "turn")
  \/ \E r \in Requests : ProcessAlive /\ Activate(r)
  \/ \E r \in Requests : ProcessAlive /\ CreateTurnRow(r)
  \/ \E r \in Requests : ProcessAlive /\ EmitStarted(r, TRUE)
  \/ \E r \in Requests : ProcessAlive /\ FakeTick(r)
  \/ \E r \in Requests : ProcessAlive /\ FakeDelta(r, TRUE)
  \/ \E r \in Requests : ProcessAlive /\ FakeEnd(r)
  \/ \E r \in Requests : ProcessAlive /\ PostStream(r, TRUE, TRUE)
  \/ \E r \in Requests : ProcessAlive /\ Finalize(r)
  \/ \E r \in Requests : ProcessAlive /\ Deferred(r)
  \/ Signal
  \/ SrvShutdown
  \/ ListenAndServeReturns
  \/ HandlerClose
  \/ StoreClose
  \/ GraceExpire
  \/ SrvShutdownReturns
  \/ Drained
  \/ ForceCancel
  \/ ForceTick
  \/ ForceReturn

\* two turns on the threads of the fake provider while the process is shut down
SpecShutdown == Init /\ [][NextShutdown]_vars

-----------------------------------------------------------------------------
(* httpapi.Server thread agent cache, statement by statement: the handlers *)
(* of concurrent requests in resolveTurnAgent and the idle janitor in      *)
(* reapIdleAgents; managedAgents is the map agentsByThread with, for each  *)
(* entry, its provider and the time since lastUsed                         *)

\* agentIdleTTL in ticks of the clock
AgentIdleTTL == 2

CacheThreads == {"t2", "t3"}

\* the instance turnAgentFactory returns to the handler w
NewProvider(w) == w

\* TurnController.IsThreadActive
IsThreadActive(bt, threadID) == threadID \in DOMAIN bt

\* reapIdleAgents keeps an entry that was used less than agentIdleTTL ago
IdleExpired(idleFor) == ~(idleFor < AgentIdleTTL)

InstalledNew(existing, created) == created

\* resolveTurnAgent after the factory: an entry installed meanwhile stays
Installed(existing, created) == IF existing # "none" THEN existing ELSE created

ProviderOf(ma, threadID) == IF threadID \in DOMAIN ma THEN ma[threadID].provider ELSE "none"

\* resolveTurnAgent, first critical section: a hit refreshes lastUsed and
\* returns the cached provider, a miss goes on to the factory
Lookup(w, t) ==
  /\ wpc[w] = "idle"
  /\ agentMu = "free"
  /\ wThread' = [wThread EXCEPT ![w] = t]
  /\ IF t \in DOMAIN managedAgents
     THEN /\ managedAgents' = [managedAgents EXCEPT ![t].idle = 0]
          /\ wAgent' = [wAgent EXCEPT ![w] = managedAgents[t].provider]
          /\ wpc' = [wpc EXCEPT ![w] = "activate"]
     ELSE /\ wpc' = [wpc EXCEPT ![w] = "factory"]
          /\ UNCHANGED <<managedAgents, wAgent>>
  /\ UNCHANGED <<coreVars, auxButCache, agentMu, closed, wNew, jpc, jTodo, jCur, jActive, jItems>>

\* turnAgentFactory, called outside the lock; its error ends the request (503)
Factory(w, ok) ==
  /\ wpc[w] = "factory"
  /\ wNew' = [wNew EXCEPT ![w] = IF ok THEN NewProvider(w) ELSE "none"]
  /\ wpc' = [wpc EXCEPT ![w] = IF ok THEN "install" ELSE "done"]
  /\ UNCHANGED <<coreVars, auxButCache, managedAgents, agentMu, closed, wThread, wAgent, jpc, jTodo,
                 jCur, jActive, jItems>>

\* resolveTurnAgent, second critical section: install the new instance, or
\* refresh and return the entry a concurrent request installed
Install(w) ==
  /\ wpc[w] = "install"
  /\ agentMu = "free"
  /\ LET t == wThread[w]
         p == Installed(ProviderOf(managedAgents, t), wNew[w])
     IN /\ managedAgents' = MapPut(managedAgents, t, [provider |-> p, idle |-> 0])
        /\ wAgent' = [wAgent EXCEPT ![w] = p]
        /\ wpc' = [wpc EXCEPT ![w] = IF p = wNew[w] THEN "activate" ELSE "discard"]
  /\ UNCHANGED <<coreVars, auxButCache, agentMu, closed, wThread, wNew, jpc, jTodo, jCur, jActive, jItems>>

\* the instance that lost is closed, after the unlock
Discard(w) ==
  /\ wpc[w] = "discard"
  /\ closed' = closed \cup {wNew[w]}
  /\ wpc' = [wpc EXCEPT ![w] = "activate"]
  /\ UNCHANGED <<coreVars, auxButCache, managedAgents, agentMu, wThread, wNew, wAgent, jpc, jTodo, jCur,
                 jActive, jItems>>

\* s.turns.Activate with the turn of handler w: 409 when the thread is taken
HandlerActivate(w) ==
  /\ wpc[w] = "activate"
  /\ IF ActivateOk(byThread, wThread[w])
     THEN /\ byThread' = MapPut(byThread, wThread[w], w)
          /\ byTurn' = MapPut(byTurn, w, wThread[w])
          /\ wpc' = [wpc EXCEPT ![w] = "stream"]
     ELSE /\ wpc' = [wpc EXCEPT ![w] = "done"]
          /\ UNCHANGED ctlVars
  /\ UNCHANGED <<reqVars, ctxVars, dbVars, strVars, acpVars, permVars, frames, prompt, sysVars,
                 txVars>>
  /\ UNCHANGED <<auxButCache, managedAgents, agentMu, closed, wThread, wNew, wAgent, jpc, jTodo, jCur,
                 jActive, jItems>>

\* streamAgent.Stream runs on the resolved provider and returns
HandlerStream(w) ==
  /\ wpc[w] = "stream"
  /\ wpc' = [wpc EXCEPT ![w] = "release"]
  /\ UNCHANGED <<coreVars, auxButCache, managedAgents, agentMu, closed, wThread, wNew, wAgent, jpc, jTodo,
                 jCur, jActive, jItems>>

\* the deferred s.turns.Release
HandlerRelease(w) ==
  /\ wpc[w] = "release"
  /\ byThread' = ReleaseByThread(byThread, byTurn, wThread[w], w)
  /\ byTurn' = ReleaseByTurn(byTurn, wThread[w], w)
  /\ wpc' = [wpc EXCEPT ![w] = "done"]
  /\ UNCHANGED <<reqVars, ctxVars, dbVars, strVars, acpVars, permVars, frames, prompt, sysVars,
                 txVars>>
  /\ UNCHANGED <<auxButCache, managedAgents, agentMu, closed, wThread, wNew, wAgent, jpc, jTodo, jCur,
                 jActive, jItems>>

\* time passes: every entry is a tick further from its lastUsed
Tick ==
  /\ \E t \in DOMAIN managedAgents : managedAgents[t].idle < AgentIdleTTL
  /\ managedAgents' = [t \in DOMAIN managedAgents |->
                         [managedAgents[t] EXCEPT !.idle = IF @ < AgentIdleTTL THEN @ + 1 ELSE @]]
  /\ UNCHANGED <<coreVars, auxButCache, agentMu, closed, wpc, wThread, wNew, wAgent, jpc, jTodo, jCur,
                 jActive, jItems>>

\* idleJanitorLoop's ticker fires: reapIdleAgents takes agentMu and ranges
\* over the entries
JanitorLock ==
  /\ jpc = "idle"
  /\ agentMu = "free"
  /\ agentMu' = "janitor"
  /\ jTodo' = DOMAIN managedAgents
  /\ jpc' = "range"
  /\ UNCHANGED <<coreVars, auxButCache, managedAgents, closed, wpc, wThread, wNew, wAgent, jCur, jActive,
                 jItems>>

\* the next entry of the range: s.turns.IsThreadActive(threadID)
JanitorCheck(t) ==
  /\ jpc = "range"
  /\ t \in jTodo
  /\ jTodo' = jTodo \ {t}
  /\ jCur' = t
  /\ jActive' = IsThreadActive(byThread, t)
  /\ jpc' = "decide"
  /\ UNCHANGED <<coreVars, auxButCache, managedAgents, agentMu, closed, wpc, wThread, wNew, wAgent, jItems>>

\* continue when the thread was active or the entry is not idle long enough,
\* else delete the entry and keep its closer for after the unlock
JanitorDecide ==
  /\ jpc = "decide"
  /\ IF jActive \/ ~IdleExpired(managedAgents[jCur].idle)
     THEN UNCHANGED <<managedAgents, jItems>>
     ELSE /\ managedAgents' = MapDel(managedAgents, jCur)
          /\ jItems' = jItems \cup {managedAgents[jCur].provider}
  /\ jpc' = "range"
  /\ UNCHANGED <<coreVars, auxButCache, agentMu, closed, wpc, wThread, wNew, wAgent, jTodo, jCur, jActive>>

\* the range is over: unlock
JanitorUnlock ==
  /\ jpc = "range"
  /\ jTodo = {}
  /\ agentMu' = "free"
  /\ jpc' = "close"
  /\ UNCHANGED <<coreVars, auxButCache, managedAgents, closed, wpc, wThread, wNew, wAgent, jTodo, jCur,
                 jActive, jItems>>

\* item.closer.Close for every reclaimed entry, outside the lock
JanitorClose ==
  /\ jpc = "close"
  /\ closed' = closed \cup jItems
  /\ jItems' = {}
  /\ jpc' = "idle"
  /\ UNCHANGED <<coreVars, auxButCache, managedAgents, agentMu, wpc, wThread, wNew, wAgent, jTodo, jCur,
                 jActive>>

NextCache ==
  \/ \E w \in Workers, t \in CacheThreads : (w = "w1" => t = "t2") /\ Lookup(w, t)
  \/ \E w \in Workers, ok \in BOOLEAN : Factory(w, ok)
  \/ \E w \in Workers : Install(w)
  \/ \E w \in Workers : Discard(w)
  \/ \E w \in Workers : HandlerActivate(w)
  \/ \E w \in Workers : HandlerStream(w)
  \/ \E w \in Workers : HandlerRelease(w)
  \/ Tick
  \/ JanitorLock
  \/ \E t \in CacheThreads : JanitorCheck(t)
  \/ JanitorDecide
  \/ JanitorUnlock
  \/ JanitorClose

\* two requests resolve their thread's agent while the idle janitor runs
SpecCache == Init /\ [][NextCache]_vars

-----------------------------------------------------------------------------
(* acp.rpcConn, statement by statement: concurrent callers in Call, the    *)
(* read loop in dispatchResponse, and closeWithError under closeOnce;      *)
(* pending holds the ids of the registered calls, callCh their channels    *)

RecvResultUnchecked(ch) == "result"

\* Call's receive from respCh: a closed channel is the connection's error
RecvResult(ch) == IF ch = "closed" THEN "error" ELSE "result"

\* the branches of Call's select that are ready for caller w
SelectReady(w, branch) ==
  \/ branch = "done" /\ closepc = "done"
  \/ branch = "ctx" /\ callCtx[w]
  \/ branch = "resp" /\ callCh[w] # "empty"

\* Call creates respCh and registers it under pendingMu
CallRegister(w) ==
  /\ callpc[w] = "idle"
  /\ pending' = pending \cup {w}
  /\ callpc' = [callpc EXCEPT ![w] = "write"]
  /\ UNCHANGED <<coreVars, auxButRpc, callRes, callCh, callCtx, sent, closepc>>

\* writeMessage: on a closed stdin Call returns the error and the deferred
\* removePending takes the entry out
CallWrite(w) ==
  /\ callpc[w] = "write"
  /\ IF closepc # "open"
     THEN /\ callRes' = [callRes EXCEPT ![w] = "error"]
          /\ pending' = pending \ {w}
          /\ callpc' = [callpc EXCEPT ![w] = "returned"]
          /\ UNCHANGED sent
     ELSE /\ sent' = sent \cup {w}
          /\ callpc' = [callpc EXCEPT ![w] = "select"]
          /\ UNCHANGED <<callRes, pending>>
  /\ UNCHANGED <<coreVars, auxButRpc, callCh, callCtx, closepc>>

\* Call's select takes a ready branch, then the deferred removePending
CallSelect(w, branch) ==
  /\ callpc[w] = "select"
  /\ SelectReady(w, branch)
  /\ callRes' = [callRes EXCEPT ![w] = IF branch = "resp" THEN RecvResult(callCh[w]) ELSE "error"]
  /\ pending' = pending \ {w}
  /\ callpc' = [callpc EXCEPT ![w] = "returned"]
  /\ UNCHANGED <<coreVars, auxButRpc, callCh, callCtx, sent, closepc>>

\* the context of the call is cancelled
CallCtxCancel(w) ==
  /\ callpc[w] \in {"write", "select"}
  /\ ~callCtx[w]
  /\ callCtx' = [callCtx EXCEPT ![w] = TRUE]
  /\ UNCHANGED <<coreVars, auxButRpc, pending, callpc, callRes, callCh, sent, closepc>>

\* the agent answers a request: the read loop's dispatchResponse takes the
\* entry out of pending and sends on its channel; no entry, no effect
DispatchResponse(w) ==
  /\ w \in sent
  /\ closepc # "done"
  /\ sent' = sent \ {w}
  /\ IF w \in pending
     THEN /\ pending' = pending \ {w}
          /\ callCh' = [callCh EXCEPT ![w] = "msg"]
     ELSE UNCHANGED <<pending, callCh>>
  /\ UNCHANGED <<coreVars, auxButRpc, callpc, callRes, callCtx, closepc>>

\* closeWithError, first under closeOnce (Close, or the read loop at EOF or on
\* an error): stdin and stdout are closed, doneErr is set
CloseBegin ==
  /\ closepc = "open"
  /\ closepc' = "stdin"
  /\ UNCHANGED <<coreVars, auxButRpc, pending, callpc, callRes, callCh, callCtx, sent>>

\* closeWithError under pendingMu: every registered channel is closed and its
\* entry deleted
CloseSweep ==
  /\ closepc = "stdin"
  /\ callCh' = [w \in Workers |-> IF w \in pending THEN "closed" ELSE callCh[w]]
  /\ pending' = {}
  /\ closepc' = "swept"
  /\ UNCHANGED <<coreVars, auxButRpc, callpc, callRes, callCtx, sent>>

\* closeWithError ends with close(c.done)
CloseDone ==
  /\ closepc = "swept"
  /\ closepc' = "done"
  /\ UNCHANGED <<coreVars, auxButRpc, pending, callpc, callRes, callCh, callCtx, sent>>

NextRpc ==
  \/ \E w \in Workers : CallRegister(w)
  \/ \E w \in Workers : CallWrite(w)
  \/ \E w \in Workers, branch \in {"done", "ctx", "resp"} : CallSelect(w, branch)
  \/ \E w \in Workers : CallCtxCancel(w)
  \/ \E w \in Workers : DispatchResponse(w)
  \/ CloseBegin
  \/ CloseSweep
  \/ CloseDone

\* two callers on one connection that is closed at any point; a goroutine
\* that can take a step of Call or of closeWithError goes on
SpecRpc ==
  /\ Init
  /\ [][NextRpc]_vars
  /\ \A w \in Workers : WF_vars(CallWrite(w))
  /\ \A w \in Workers : WF_vars(\E branch \in {"done", "ctx", "resp"} : CallSelect(w, branch))
  /\ WF_vars(CloseSweep)
  /\ WF_vars(CloseDone)

-----------------------------------------------------------------------------
(* acp.Client.Stream from session/prompt to its return, with the clock:    *)
(* the prompt call, sendSessionCancel, the deferred terminateProcess and   *)
(* the deferred conn.Close, which run in this order; tLog lists what the   *)
(* child is sent, tElapsed the seconds since the prompt call returned      *)

WaitLimitSlow(phase) ==
  IF phase = "sendCancel" THEN SessionCancelTimeout
  ELSE IF phase = "terminate" THEN KillAfter
  ELSE WaitAfterKill + 1

\* the timeout of the wait Stream is in: sendSessionCancel's cancelCtx and the
\* two time.After of terminateProcess
WaitLimit(phase) ==
  IF phase = "sendCancel" THEN SessionCancelTimeout
  ELSE IF phase = "terminate" THEN KillAfter
  ELSE WaitAfterKill

WaitPhases == {"sendCancel", "terminate", "afterKill"}

\* what ends the wait of a phase before its timeout
WaitOver(phase) ==
  IF phase = "sendCancel" THEN cancelAnswered \/ stdinClosed ELSE child = "exited"

\* cmd.Start, initialize and session/new are over: session/prompt is called
Spawn ==
  /\ tpc = "idle"
  /\ tpc' = "prompt"
  /\ child' = "running"
  /\ UNCHANGED <<coreVars, auxButTerm, tCtx, cancelAnswered, stdinClosed, tLog, tTimer, tElapsed>>

\* the turn's context is cancelled while session/prompt is outstanding
TermCtxCancel ==
  /\ tpc = "prompt"
  /\ ~tCtx
  /\ tCtx' = TRUE
  /\ UNCHANGED <<coreVars, auxButTerm, tpc, child, cancelAnswered, stdinClosed, tLog, tTimer,
                 tElapsed>>

\* the prompt call returns ctx.Err(): Stream calls sendSessionCancel, whose
\* request is written unless the connection is closed already
PromptCtxDone ==
  /\ tpc = "prompt"
  /\ tCtx
  /\ tpc' = "sendCancel"
  /\ tLog' = IF stdinClosed THEN tLog ELSE Append(tLog, "session/cancel")
  /\ tTimer' = 0
  /\ UNCHANGED <<coreVars, auxButTerm, tCtx, child, cancelAnswered, stdinClosed, tElapsed>>

\* the prompt call returns the agent's answer or the connection's error:
\* Stream returns into its deferred calls
PromptReturns ==
  /\ tpc = "prompt"
  /\ tpc' = "terminate"
  /\ tTimer' = 0
  /\ UNCHANGED <<coreVars, auxButTerm, tCtx, child, cancelAnswered, stdinClosed, tLog, tElapsed>>

\* the agent answers session/cancel
ChildAnswersCancel ==
  /\ tpc = "sendCancel"
  /\ child = "running"
  /\ ~stdinClosed
  /\ ~cancelAnswered
  /\ cancelAnswered' = TRUE
  /\ UNCHANGED <<coreVars, auxButTerm, tpc, tCtx, child, stdinClosed, tLog, tTimer, tElapsed>>

\* sendSessionCancel returns: answered, connection closed, or cancelCtx expired
SendCancelReturns ==
  /\ tpc = "sendCancel"
  /\ WaitOver("sendCancel") \/ tTimer = WaitLimit("sendCancel")
  /\ tpc' = "terminate"
  /\ tTimer' = 0
  /\ UNCHANGED <<coreVars, auxButTerm, tCtx, child, cancelAnswered, stdinClosed, tLog, tElapsed>>

\* terminateProcess, first select: cmd.Wait has returned
TerminateExited ==
  /\ tpc = "terminate"
  /\ WaitOver("terminate")
  /\ tpc' = "connClose"
  /\ UNCHANGED <<coreVars, auxButTerm, tCtx, child, cancelAnswered, stdinClosed, tLog, tTimer,
                 tElapsed>>

\* terminateProcess, first select: time.After fired, cmd.Process.Kill
TerminateKill ==
  /\ tpc = "terminate"
  /\ tTimer = WaitLimit("terminate")
  /\ tLog' = Append(tLog, "kill")
  /\ tpc' = "afterKill"
  /\ tTimer' = 0
  /\ UNCHANGED <<coreVars, auxButTerm, tCtx, child, cancelAnswered, stdinClosed, tElapsed>>

\* terminateProcess, second select: cmd.Wait has returned or time.After fired
AfterKillReturns ==
  /\ tpc = "afterKill"
  /\ WaitOver("afterKill") \/ tTimer = WaitLimit("afterKill")
  /\ tpc' = "connClose"
  /\ UNCHANGED <<coreVars, auxButTerm, tCtx, child, cancelAnswered, stdinClosed, tLog, tTimer,
                 tElapsed>>

\* the deferred conn.Close: closeWithError closes stdin unless closeOnce ran
ConnClose ==
  /\ tpc = "connClose"
  /\ stdinClosed' = TRUE
  /\ tLog' = IF stdinClosed THEN tLog ELSE Append(tLog, "close_stdin")
  /\ tpc' = "returned"
  /\ UNCHANGED <<coreVars, auxButTerm, tCtx, child, cancelAnswered, tTimer, tElapsed>>

\* the child exits, by itself or after the kill
ChildExit ==
  /\ child = "running"
  /\ child' = "exited"
  /\ UNCHANGED <<coreVars, auxButTerm, tpc, tCtx, cancelAnswered, stdinClosed, tLog, tTimer,
                 tElapsed>>

\* the read loop reads EOF from the exited child: closeWithError closes stdin
ReaderEof ==
  /\ child = "exited"
  /\ ~stdinClosed
  /\ stdinClosed' = TRUE
  /\ tLog' = Append(tLog, "close_stdin")
  /\ UNCHANGED <<coreVars, auxButTerm, tpc, tCtx, child, cancelAnswered, tTimer, tElapsed>>

\* a second passes while Stream waits and nothing ends the wait
Second ==
  /\ tpc \in WaitPhases
  /\ ~WaitOver(tpc)
  /\ tTimer < WaitLimit(tpc)
  /\ tTimer' = tTimer + 1
  /\ tElapsed' = tElapsed + 1
  /\ UNCHANGED <<coreVars, auxButTerm, tpc, tCtx, child, cancelAnswered, stdinClosed, tLog>>

NextTerm ==
  \/ Spawn
  \/ TermCtxCancel
  \/ PromptCtxDone
  \/ PromptReturns
  \/ ChildAnswersCancel
  \/ SendCancelReturns
  \/ TerminateExited
  \/ TerminateKill
  \/ AfterKillReturns
  \/ ConnClose
  \/ ChildExit
  \/ ReaderEof
  \/ Second

\* one Stream call from session/prompt on, with a child that answers and exits
\* when it likes
SpecTerm == Init /\ [][NextTerm]_vars

-----------------------------------------------------------------------------
(* The embedded provider: Client.Stream with its retry loop over           *)
(* ensureInitialized and streamOnce; the runtime stays with the client     *)
(* from one Stream call to the next                                        *)

\* Stream calls made on one client
MaxStreams == 2

maxAttempts == 2

\* the code of the error the runtime answers when turn/start failed
TurnStartCode == -32000
InternalCode == -32603

NoErr == [kind |-> "nil", code |-> 0, message |-> ""]

\* errors of session/prompt: rpc errors with a code and a message, the
\* transport's error, and onDelta's error out of handleUpdate
RpcErrors == [kind : {"rpc"}, code : {TurnStartCode, InternalCode},
              message : {"turn/start failed", "Turn/Start failed: not ready", "internal error"}]
StreamErrors == RpcErrors \cup {[kind |-> "transport", code |-> 0, message |-> "closed"],
                                [kind |-> "emit", code |-> 0, message |-> "write failed"]}

\* strings.ToLower of the messages above
ToLower(message) ==
  IF message = "Turn/Start failed: not ready" THEN "turn/start failed: not ready" ELSE message

\* the lowered text contains "message=turn/start failed"
HasTurnStartFailed(message) ==
  ToLower(message) \in {"turn/start failed", "turn/start failed: not ready"}

isRetryableAnyRpc(err) == err.kind = "rpc"

\* strings.Contains(lowered error text,
\*   "session/prompt rpc error code=-32000 message=turn/start failed")
isRetryableTurnStartError(err) ==
  err.kind = "rpc" /\ err.code = TurnStartCode /\ HasTurnStartFailed(err.message)

\* Stream is called for a turn
EmbStream ==
  /\ epc \in {"idle", "returned"}
  /\ eCalls < MaxStreams
  /\ eCalls' = eCalls + 1
  /\ epc' = "ensure"
  /\ attempt' = 1
  /\ eErr' = NoErr
  /\ eRet' = NoRet
  /\ eResets' = 0
  /\ eCreated' = 0
  /\ eDeltas' = 0
  /\ eCtx' = FALSE
  /\ eQueue' = <<>>
  /\ eSeen' = <<>>
  /\ ePrompt' = NoCall
  /\ UNCHANGED <<coreVars, auxButEmb, eRuntime>>

\* the context of the turn is cancelled
EmbCtxCancel ==
  /\ epc \in {"ensure", "stream"}
  /\ ~eCtx
  /\ eCtx' = TRUE
  /\ UNCHANGED <<coreVars, auxButEmb, epc, attempt, eRuntime, eErr, eRet, eResets, eCreated,
                 eCalls, eDeltas, eQueue, eSeen, ePrompt>>

\* ensureInitialized: the runtime of the client when there is one; else a new
\* runtime is started, initialized and given a session, and closed again when
\* that fails; a cancelled or expired start is returned as cancelled
EnsureInitialized(res) ==
  /\ epc = "ensure"
  /\ IF eRuntime = "up"
     THEN /\ res = "ok"
          /\ epc' = "stream"
          /\ UNCHANGED <<eRuntime, eCreated, eRet>>
     ELSE IF res = "ok"
     THEN /\ eRuntime' = "up"
          /\ eCreated' = eCreated + 1
          /\ epc' = "stream"
          /\ UNCHANGED eRet
     ELSE /\ eRet' = IF res = "canceled"
                     THEN [reason |-> StopReasonCancelled, err |-> "nil"]
                     ELSE [reason |-> StopReasonEndTurn, err |-> "initialize"]
          /\ epc' = "returned"
          /\ UNCHANGED <<eRuntime, eCreated>>
  /\ eQueue' = <<>>
  /\ ePrompt' = NoCall
  /\ UNCHANGED <<coreVars, auxButEmb, attempt, eErr, eResets, eCalls, eDeltas, eCtx, eSeen>>

\* the end of an iteration of Stream's loop, after streamOnce returned
\* (stopReason, streamErr): return, or resetRuntime and the next attempt
AfterStreamOnce(stopReason, streamErr) ==
  /\ eErr' = streamErr
  /\ IF streamErr = NoErr
     THEN /\ eRet' = [reason |-> stopReason, err |-> "nil"]
          /\ epc' = "returned"
          /\ UNCHANGED <<attempt, eRuntime, eResets>>
     ELSE IF ~isRetryableTurnStartError(streamErr) \/ attempt = maxAttempts
     THEN /\ eRet' = [reason |-> stopReason, err |-> streamErr.kind]
          /\ epc' = "returned"
          /\ UNCHANGED <<attempt, eRuntime, eResets>>
     ELSE /\ eRuntime' = "none"
          /\ eResets' = eResets + 1
          /\ attempt' = attempt + 1
          /\ epc' = "ensure"
          /\ UNCHANGED eRet

\* streamOnce, case <-ctx.Done()
EmbCtxDone ==
  /\ epc = "stream"
  /\ eCtx
  /\ AfterStreamOnce(StopReasonCancelled, NoErr)
  /\ UNCHANGED <<coreVars, auxButEmb, eCreated, eCalls, eDeltas, eCtx, eQueue, eSeen, ePrompt>>

\* the runtime publishes a session/update with the next delta to the
\* subscription of streamOnce, before it answers session/prompt
EmbPublish ==
  /\ epc = "stream"
  /\ ePrompt = NoCall
  /\ Len(eSeen) + Len(eQueue) < MaxDeltas
  /\ eQueue' = Append(eQueue, Len(eSeen) + Len(eQueue) + 1)
  /\ UNCHANGED <<coreVars, auxButEmb, epc, attempt, eRuntime, eErr, eRet, eResets, eCreated,
                 eCalls, eDeltas, eCtx, eSeen, ePrompt>>

\* the runtime answers session/prompt: clientRequest returns and the goroutine
\* of streamOnce sends the result on promptDone
EmbRuntimeAnswer(reason, err) ==
  /\ epc = "stream"
  /\ ePrompt = NoCall
  /\ ePrompt' = [op |-> "promptResult", reason |-> reason, err |-> err]
  /\ UNCHANGED <<coreVars, auxButEmb, epc, attempt, eRuntime, eErr, eRet, eResets, eCreated,
                 eCalls, eDeltas, eCtx, eQueue, eSeen>>

\* streamOnce, case result := <-promptDone: an error is returned as cancelled
\* when the context is done, else wrapped; a response gives its stop reason
EmbPromptDone ==
  /\ epc = "stream"
  /\ ePrompt # NoCall
  /\ IF ePrompt.err # NoErr
     THEN IF eCtx THEN AfterStreamOnce(StopReasonCancelled, NoErr)
                  ELSE AfterStreamOnce(StopReasonEndTurn, ePrompt.err)
     ELSE AfterStreamOnce(ePrompt.reason, NoErr)
  /\ UNCHANGED <<coreVars, auxButEmb, eCreated, eCalls, eDeltas, eCtx, eQueue, eSeen, ePrompt>>

\* streamOnce, case msg := <-updates: handleUpdate calls onDelta with the
\* oldest update of the subscription; onDelta's error ends streamOnce
EmbUpdate(ok) ==
  /\ epc = "stream"
  /\ eQueue # <<>>
  /\ eQueue' = Tail(eQueue)
  /\ eSeen' = Append(eSeen, Head(eQueue))
  /\ eDeltas' = eDeltas + 1
  /\ IF ok THEN UNCHANGED <<epc, attempt, eRuntime, eErr, eRet, eResets>>
           ELSE AfterStreamOnce(StopReasonEndTurn,
                                [kind |-> "emit", code |-> 0, message |-> "write failed"])
  /\ UNCHANGED <<coreVars, auxButEmb, eCreated, eCalls, eCtx, ePrompt>>

NextEmbedded ==
  \/ EmbStream
  \/ EmbCtxCancel
  \/ \E res \in {"ok", "canceled", "failed"} : EnsureInitialized(res)
  \/ EmbCtxDone
  \/ EmbPublish
  \/ \E reason \in {StopReasonEndTurn, StopReasonCancelled},
        err \in {NoErr} \cup (StreamErrors \ {[kind |-> "emit", code |-> 0, message |-> "write failed"]}) :
        EmbRuntimeAnswer(reason, err)
  \/ EmbPromptDone
  \/ \E ok \in BOOLEAN : EmbUpdate(ok)

\* Stream calls on one embedded client, with every answer of the runtime
SpecEmbedded == Init /\ [][NextEmbedded]_vars

-----------------------------------------------------------------------------
(* Properties                                                              *)

\* C1: a thread never has more than one active-turn entry, byThread and byTurn
\* agree, and an Activate that finds byThread[threadID] set answers 409 and
\* changes neither map.
C1_OneActiveTurnPerThread ==
  /\ [](\A t \in Threads :
          /\ Cardinality({u \in DOMAIN byTurn : byTurn[u] = t}) <= 1
          /\ t \in DOMAIN byThread =>
                byThread[t] \in DOMAIN byTurn /\ byTurn[byThread[t]] = t)
  /\ [][\A r \in Requests :
          (pc[r] = "activate" /\ pc'[r] \in {"create", "done"}
             /\ thread[r] \in DOMAIN byThread)
          => (resp'[r] = "409" /\ pc'[r] = "done" /\ UNCHANGED ctlVars)]_vars

\* a request was refused with 409 while another turn holds its thread
C1_Witness ==
  \E r \in Requests :
    /\ resp[r] = "409"
    /\ thread[r] \in DOMAIN byThread
    /\ byThread[thread[r]] # r
    /\ Cardinality(DOMAIN byTurn) = 1

C3_ResolvedOnce ==
  [][\A r \in Requests :
       /\ permOutcome[r] # "none" =>
             /\ permOutcome'[r] = permOutcome[r]
             /\ permBy'[r] = permBy[r]
             /\ decResp'[r] # decResp[r] => decResp'[r] \in {"404", "409"}
       /\ permDelivered[r] # "none" => permDelivered'[r] = permDelivered[r]
       /\ permDelivered'[r] # permDelivered[r] =>
             (permOutcome'[r] # "none" \/ kind[r] = "compact")]_vars

\* a decision was committed, a second decision was answered 409, and the
\* provider was handed the committed outcome
C3_Witness ==
  \E r \in Requests :
    /\ permBy[r] = "decision"
    /\ decResp[r] = "409"
    /\ permDelivered[r] = permOutcome[r]
    /\ permTimer[r]

\* C4: the events of a turn carry the seq values 1..N in insertion order, with
\* no gap and no duplicate, also when AppendEvent is called concurrently.
C4_SeqContiguous ==
  \A u \in Requests : \A i \in 1..Len(events[u]) : events[u][i].seq = i

\* two events of one turn are stored while two callers append to that turn,
\* one inside its transaction and one waiting for the connection
C4_Witness ==
  \E u \in Requests : \E w1, w2 \in Workers :
    /\ Len(events[u]) >= 2
    /\ txTurn[w1] = u /\ txpc[w1] = "insert"
    /\ txTurn[w2] = u /\ txpc[w2] = "wait"

\* C5: the response_text of a finalized turn is the concatenation, in seq
\* order, of the persisted message_delta payloads of that turn.
C5_ResponseTextIsDeltas ==
  \A r \in Requests :
    rows[r].status \notin {"none", "running"} => rows[r].responseText = DeltasOf(events[r])

\* C6: the turns table never holds two running rows of one thread.
C6_OneRunningRowPerThread ==
  \A t \in Threads :
    Cardinality({u \in Requests : rows[u].status = "running" /\ rows[u].thread = t}) <= 1

\* C7: a request holds its slot from activation until its handler returns, and
\* when the handler has returned, on whatever path, its cancel function was
\* called and the slot is released.
C7_SlotReleasedOnExit ==
  \A r \in Requests :
    /\ pc[r] \in {"create", "started", "fake", "fakeDelta", "acpInit", "acpNew", "acpPrompt",
                   "acpTerm", "post", "finalize", "defer"} => r \in DOMAIN byTurn
    /\ pc[r] = "done" =>
         /\ r \notin DOMAIN byTurn
         /\ \A t \in DOMAIN byThread : byThread[t] # r
         /\ resp[r] \notin {"404", "409"} => ctxCancelled[r]

\* a handler returned after its client went away and the turn was finalized
\* failed: no slot is held
C7_Witness ==
  \E r \in Requests :
    /\ pc[r] = "done"
    /\ disconnected[r]
    /\ rows[r].status = "failed"
    /\ byThread = << >>

\* C8: when the handler that created a running turn row has returned, the row
\* has a terminal status, also when the client went away.
C8_RowFinalizedOnExit ==
  \A r \in Requests :
    (pc[r] \in {"defer", "done"} /\ rows[r].status # "none")
      => rows[r].status \in {"completed", "cancelled", "failed"}

\* the client disconnected while the provider streamed, the handler returned
\* and the row is terminal
C8_Witness ==
  \E r \in Requests :
    /\ pc[r] = "done"
    /\ disconnected[r]
    /\ nDeltas[r] >= 1
    /\ rows[r].status \in {"cancelled", "failed"}

\* C9: a turn cancelled through the cancel endpoint while the provider was in
\* initialize or session/new, whose Stream saw the cancellation, is finalized
\* with status cancelled and stopReason cancelled and the deltas so far.
C9_CancelledWhileStarting ==
  \A r \in Requests :
    (cancelPhase[r] \in {"acpInit", "acpNew"} /\ ctxSeen[r] /\ ~disconnected[r]
       /\ rows[r].status \notin {"none", "running"})
      => /\ rows[r].status = "cancelled"
         /\ rows[r].stopReason = StopReasonCancelled
         /\ rows[r].responseText = <<>>

\* C10: a Stream that returned after it saw its context cancelled returned
\* StopReason cancelled with a nil error.
C10_CancelledNilError ==
  \A r \in Requests :
    (ret[r] # NoRet /\ ctxSeen[r]) => ret[r] = [reason |-> StopReasonCancelled, err |-> "nil"]

\* the permission of r was declined by the bridge on timeout, or on the
\* cancellation that a disconnect of the SSE stream brings
BridgeDeclined(r) ==
  /\ permDelivered[r] = PermissionOutcomeDeclined
  /\ permBy[r] = "timeout" \/ (permBy[r] = "cancel" /\ disconnected[r])

\* C11 as stated: a turn whose permission was declined on timeout or on
\* disconnect is finalized cancelled with stopReason cancelled, and after a
\* disconnect the handler waits at most 4 seconds before it finalizes.
C11_DeclinedEndsCancelled ==
  \A r \in Requests :
    BridgeDeclined(r) =>
      /\ rows[r].status \notin {"none", "running"} =>
            rows[r].status = "cancelled" /\ rows[r].stopReason = StopReasonCancelled
      /\ (pc[r] = "post" /\ disconnected[r]) => waited[r] <= 4

\* C11 amended: such a turn is finalized cancelled with stopReason cancelled
\* when the provider's Stream saw the cancelled context or returned cancelled,
\* and the handler waits at most the three teardown timeouts before it
\* finalizes.
C11_DeclinedEndsAsProviderReports ==
  \A r \in Requests :
    BridgeDeclined(r) =>
      /\ (rows[r].status \notin {"none", "running"}
            /\ (ctxSeen[r] \/ ret[r].reason = StopReasonCancelled)) =>
            rows[r].status = "cancelled" /\ rows[r].stopReason = StopReasonCancelled
      /\ pc[r] = "post" => waited[r] <= SessionCancelTimeout + KillAfter + WaitAfterKill

\* the client disconnected while the permission was pending, the bridge
\* declined, Stream saw the cancellation and the turn is finalized cancelled
C11_Witness ==
  \E r \in Requests :
    /\ permBy[r] = "cancel" /\ disconnected[r] /\ permLapsed[r]
    /\ permDelivered[r] = PermissionOutcomeDeclined
    /\ ctxSeen[r]
    /\ rows[r].status = "cancelled"

\* C12 as stated: a POST of the owning client for a permission that is already
\* resolved is answered 409 and leaves the committed outcome as it is.
C12_LaterDecisionConflict ==
  [][\A r \in Requests :
       (decResp'[r] # decResp[r] /\ permOutcome[r] # "none") =>
         \A o \in Outcomes :
           Decision(client[r], r, o)
             => (decResp'[r] = "409" /\ permOutcome'[r] = permOutcome[r])]_vars

\* C12 amended: such a POST leaves the committed outcome as it is and is
\* answered 409 while the permission is still registered, 404 once the turn's
\* permission handler has returned and unregistered it.
C12_LaterDecisionRejected ==
  [][\A r \in Requests :
       (decResp'[r] # decResp[r] /\ permOutcome[r] # "none") =>
         \A o \in Outcomes :
           Decision(client[r], r, o)
             => /\ decResp'[r] = IF permPhase[r] = "open" THEN "409" ELSE "404"
                /\ permOutcome'[r] = permOutcome[r]
                /\ permBy'[r] = permBy[r]]_vars

\* the bridge declined on timeout and a decision that came after it, while the
\* permission was still registered, was answered 409
C12_Witness ==
  \E r \in Requests :
    /\ permBy[r] = "timeout"
    /\ decResp[r] = "409"
    /\ permOutcome[r] = PermissionOutcomeDeclined

\* C13: a turn or compact request for a thread of another client, a cancel of
\* a turn of another client and a decision on a permission of another client
\* are answered 404, as they are for an id that names nothing, and they create
\* no turn, cancel no turn and resolve no permission.
C13_LeakFreeTenancy ==
  [][/\ \A r \in Requests :
          (pc[r] = "idle" /\ pc'[r] # "idle") =>
            \A c \in Clients : \A t \in Threads \cup {NoThread} : \A k \in {"turn", "compact"} :
              ((t = NoThread \/ Owner[t] # c) /\ Begin(r, c, t, k))
                => /\ resp'[r] = "404" /\ pc'[r] = "done"
                   /\ UNCHANGED <<ctxVars, ctlVars, dbVars, permVars, agentsByThread>>
     /\ \A u \in Requests :
          cancelResp'[u] # cancelResp[u] =>
            \A c \in Clients :
              ((rows[u].status = "none" \/ Owner[rows[u].thread] # c) /\ CancelTurn(c, u))
                => /\ cancelResp'[u] = "404"
                   /\ UNCHANGED <<ctxCancelled, cancelPhase, ctlVars, dbVars, permVars>>
     /\ \A r \in Requests :
          decResp'[r] # decResp[r] =>
            \A c \in Clients : \A o \in Outcomes :
              ((permPhase[r] # "open" \/ c # client[r]) /\ Decision(c, r, o))
                => /\ decResp'[r] = "404"
                   /\ UNCHANGED <<permOutcome, permBy, permDelivered, permPhase, dbVars, ctxVars>>
    ]_vars

\* while a turn waits on its permission, a cancel of it and a decision on its
\* permission by another client were answered 404: the turn is still active,
\* not cancelled, and the permission is still open
C13_Witness ==
  \E r \in Requests :
    /\ r \in DOMAIN byTurn /\ permPhase[r] = "open" /\ permOutcome[r] = "none"
    /\ cancelResp[r] = "404" /\ decResp[r] = "404"
    /\ ~ctxCancelled[r]

\* C14: every SSE frame written on the stream of a turn is an event of the
\* turn's rows in the events table, with the frame's type and payload; an emit
\* whose AppendEvent fails writes no frame, so there are never more frames than
\* events.
C14_FramePersistedFirst ==
  \A r \in Requests :
    /\ Len(frames[r]) <= Len(events[r])
    /\ \A i \in DOMAIN frames[r] :
         \E j \in DOMAIN events[r] :
           /\ events[r][j].type = frames[r][i].type
           /\ events[r][j].delta = frames[r][i].delta

\* the client is connected and got the turn_started frame; AppendEvent failed
\* for the first message_delta, which is neither an event nor a frame
C14_Witness ==
  \E r \in Requests :
    /\ kind[r] = "turn" /\ ~disconnected[r]
    /\ pc[r] = "post" /\ nDeltas[r] = 1
    /\ frames[r] = <<[type |-> "turn_started", delta |-> 0]>>
    /\ DeltasOf(events[r]) = <<>>

\* seq of the event of turn r that frame f carries
SeqOfFrame(r, f) ==
  events[r][CHOOSE j \in DOMAIN events[r] :
              events[r][j].type = f.type /\ events[r][j].delta = f.delta].seq

\* C15: the frames on the stream of a turn are in the order of the seq of
\* their events, whichever goroutine emitted them.
C15_FramesInSeqOrder ==
  \A r \in Requests :
    \A i, j \in DOMAIN frames[r] :
      i < j => SeqOfFrame(r, frames[r][i]) < SeqOfFrame(r, frames[r][j])

\* C16: finalizing a turn's row is terminal: once the row has a terminal
\* status it does not change again and no event is appended to the turn.
C16_FinalizeTerminal ==
  [][\A r \in Requests :
       rows[r].status \notin {"none", "running"}
         => rows'[r] = rows[r] /\ events'[r] = events[r]]_vars

\* C17: the requestText kept in the row of a user turn is the injected prompt
\* that was passed to the provider's Stream.
C17_RequestTextIsInjectedPrompt ==
  \A r \in Requests :
    (rows[r].status # "none" /\ ~rows[r].internal) => rows[r].requestText = prompt[r]

\* C17, amended: the requestText kept in the row of a user turn is the input
\* the user typed, without summary and recent turns; the injected prompt is
\* built around that same input and goes to the provider only.
C17_RequestTextIsRawInput ==
  \A r \in Requests :
    (rows[r].status # "none" /\ ~rows[r].internal)
      => /\ rows[r].requestText = Raw(InputOf(r))
         /\ prompt[r].input = InputOf(r)

\* after a restart the second turn of a thread got a prompt with the first
\* turn's "User:" line, and its row keeps its own input only
C17_Witness ==
  /\ restarts = 1
  /\ thread["r2"] = thread["r1"]
  /\ rows["r2"].status = "completed" /\ ~rows["r2"].internal
  /\ prompt["r2"].wrapped
  /\ \E i \in DOMAIN prompt["r2"].recent :
       prompt["r2"].recent[i].requestText = Raw(InputOf("r1"))
  /\ rows["r2"].requestText = Raw(InputOf("r2"))

\* the "User: / Assistant:" entry the row of turn u gives in a prompt
RecentEntry(u) == [requestText |-> rows[u].requestText, responseText |-> rows[u].responseText]

\* the turns of thread t in the turns table that are not internal
PriorVisible(t) ==
  {u \in Requests : rows[u].status # "none" /\ rows[u].thread = t /\ ~rows[u].internal}

\* the entries under [Recent Turns] of a prompt
ShownIn(p) == {p.recent[i] : i \in DOMAIN p.recent}

\* request r passes getOwnedThread and builds its prompt, after a restart
BuildsPromptAfterRestart(r) == restarts >= 1 /\ pc[r] = "idle" /\ pc'[r] = "activate"

C19_CancelExactlyWhenActive ==
  [][\A u \in Requests :
       cancelResp'[u] # cancelResp[u] =>
         \A c \in Clients :
           (rows[u].status # "none" /\ Owner[rows[u].thread] = c /\ CancelTurn(c, u))
             => IF u \in DOMAIN byTurn
                THEN cancelResp'[u] = "200" /\ ctxCancelled'[u]
                ELSE /\ cancelResp'[u] = "409"
                     /\ UNCHANGED <<ctxCancelled, cancelPhase, ctlVars, dbVars, permVars>>]_vars

\* a turn was cancelled while it was active, and cancelled again, with 409,
\* after it had been released
C19_Witness ==
  \E u \in Requests :
    /\ cancelPhase[u] \notin {"none", "late"}
    /\ pc[u] = "done" /\ u \notin DOMAIN byTurn
    /\ cancelResp[u] = "409"
    /\ rows[u].status = "cancelled"

\* C20: a streaming turn whose row is finalized as failed has an error event,
\* persisted and written on its stream, and its row has stopReason error.
C20_FailedTurnHasErrorEvent ==
  \A r \in Requests :
    (kind[r] = "turn" /\ rows[r].status = "failed")
      => /\ rows[r].stopReason = "error"
         /\ \E i \in DOMAIN events[r] : events[r][i].type = "error"
         /\ \E i \in DOMAIN frames[r] : frames[r][i].type = "error"

\* C21: the deferred teardown of main runs after the drain: the Thread Agent
\* Cache is closed and storage is closed only when gracefulShutdown has
\* returned, never while it waits for connections or turns.
C21_TeardownAfterDrain ==
  /\ AgentsClosed => ~Draining
  /\ StoreClosed => ~Draining

\* C22: when shutdownCtx expires with turns still active, gracefulShutdown
\* calls the cancel function of every turn in byTurn, and it returns from the
\* forced wait when the controller is idle or after ForceWait seconds at most.
C22_ForceCancelThenBoundedWait ==
  /\ [](forceWaited <= ForceWait)
  /\ [][/\ (sdpc = "drain" /\ sdpc' = "done") => DOMAIN byTurn = {}
        /\ (sdpc = "drain" /\ sdpc' = "force")
              => /\ graceExpired
                 /\ \A u \in DOMAIN byTurn : ctxCancelled'[u]
        /\ (sdpc = "force" /\ sdpc' = "done")
              => (DOMAIN byTurn = {} \/ forceWaited = ForceWait)]_vars

\* the grace timeout expired with both turns active, both were cancelled, and
\* gracefulShutdown returned after ForceWait seconds with a turn still active
C22_Witness ==
  /\ sdpc = "done"
  /\ graceExpired
  /\ forceWaited = ForceWait
  /\ \A r \in Requests : ctxCancelled[r]
  /\ DOMAIN byTurn # {}

\* C23: the idle janitor deletes an entry only when the entry was last used at
\* least agentIdleTTL ago and its thread has no active turn in the controller.
C23_ReapOnlyIdleAndInactive ==
  [][\A t \in DOMAIN managedAgents :
       (jpc = "decide" /\ t \notin DOMAIN managedAgents')
          => /\ IdleExpired(managedAgents[t].idle)
             /\ ~IsThreadActive(byThread, t)]_vars

\* C24: a request that comes back from the factory installs its instance when
\* the thread has no entry; when a concurrent request installed one meanwhile,
\* that entry stays, the caller receives it, and the caller's own instance is
\* closed before the handler goes on.
C24_OneInstalledOtherDiscarded ==
  /\ [][\A w \in Workers :
          (wpc[w] = "install" /\ wpc'[w] # "install")
             => /\ wAgent'[w] = managedAgents'[wThread[w]].provider
                /\ wThread[w] \in DOMAIN managedAgents
                     => /\ managedAgents'[wThread[w]].provider = managedAgents[wThread[w]].provider
                        /\ wpc'[w] = "discard"
                /\ wThread[w] \notin DOMAIN managedAgents
                     => /\ wAgent'[w] = wNew[w]
                        /\ wpc'[w] = "activate"]_vars
  /\ [](\A w \in Workers :
          (wpc[w] \in {"activate", "stream", "release", "done"} /\ wNew[w] # "none")
             => (wAgent[w] = wNew[w] \/ wNew[w] \in closed))

\* both requests missed and called the factory; w1 installed first, w2 found
\* that entry, received w1's instance and closed its own
C24_Witness ==
  /\ wThread["w1"] = "t2" /\ wThread["w2"] = "t2"
  /\ wpc["w2"] = "activate"
  /\ wNew["w1"] # "none" /\ wNew["w2"] # "none"
  /\ wAgent["w1"] = wNew["w1"]
  /\ wAgent["w2"] = wNew["w1"]
  /\ wNew["w2"] \in closed
  /\ ProviderOf(managedAgents, "t2") = wNew["w1"]

\* C25: once the connection is being closed, every call that is registered or
\* waiting returns, with an error unless its response had been dispatched
\* before; a call whose channel was closed returns an error; a returned call
\* has no entry in the pending table.
C25_PendingCallsFailOnClose ==
  /\ [](\A w \in Workers :
          callpc[w] = "returned"
             => /\ w \notin pending
                /\ callCh[w] = "closed" => callRes[w] = "error"
                /\ callRes[w] = "result" => callCh[w] = "msg")
  /\ \A w \in Workers :
       (closepc # "open" /\ callpc[w] \in {"write", "select"})
          ~> (callpc[w] = "returned" /\ callRes[w] # "none" /\ w \notin pending)

\* the connection was closed while both calls waited for their responses: both
\* channels were closed, both calls returned an error, the table is empty
C25_Witness ==
  /\ closepc = "done"
  /\ pending = {}
  /\ \A w \in Workers :
       callpc[w] = "returned" /\ callCh[w] = "closed" /\ callRes[w] = "error" /\ ~callCtx[w]

\* position of the first occurrence of step in the log, 0 when it is absent
PosIn(log, step) ==
  IF \E i \in DOMAIN log : log[i] = step
  THEN CHOOSE i \in DOMAIN log : log[i] = step /\ \A j \in 1..(i - 1) : log[j] # step
  ELSE 0

\* C26: after a cancellation during session/prompt the child is sent
\* session/cancel, then its stdin is closed, and it is killed only after that.
C26_CancelThenStdinThenKill ==
  (PosIn(tLog, "session/cancel") > 0 /\ PosIn(tLog, "kill") > 0)
     => /\ PosIn(tLog, "session/cancel") < PosIn(tLog, "close_stdin")
        /\ PosIn(tLog, "close_stdin") < PosIn(tLog, "kill")

\* C27 as stated: Stream returns within 4 seconds of the prompt call's return.
C27_WaitAtMostFour == tElapsed <= 4

\* C27: Stream returns within 5 seconds of the prompt call's return, the sum of
\* the timeouts of sendSessionCancel and of terminateProcess, and within 4
\* seconds when session/cancel was answered at once or not sent.
C27_WaitAtMostFive ==
  /\ tElapsed <= SessionCancelTimeout + KillAfter + WaitAfterKill
  /\ (tpc \in {"terminate", "afterKill", "connClose", "returned"} /\ PosIn(tLog, "kill") = 0)
        => tElapsed <= SessionCancelTimeout + KillAfter
  /\ PosIn(tLog, "session/cancel") = 0 => tElapsed <= KillAfter + WaitAfterKill

\* the context was cancelled, the child never answered session/cancel and
\* never exited: Stream returned after 1 + 2 + 2 seconds
C27_Witness ==
  /\ tpc = "returned"
  /\ tCtx
  /\ ~cancelAnswered
  /\ child = "running"
  /\ tElapsed = 5

\* C28: when onDelta has returned an error to a Stream that was still running,
\* the error Stream returns is not nil.
C28_DeltaErrorPropagated ==
  \A r \in Requests : (deltaErr[r] /\ ret[r] # NoRet) => ret[r].err # "nil"

\* C29: within one Stream call the runtime is reset at most once and created
\* at most once after a reset; a reset follows only a first attempt whose
\* session/prompt failed with code -32000 and a message that starts with
\* turn/start failed; every other error of streamOnce, and the error of the
\* second attempt, is returned to the caller at once.
C29_RetryOnceOnTurnStartError ==
  /\ [](eResets <= 1 /\ attempt <= maxAttempts /\ eCreated <= eResets + 1)
  /\ [][/\ eResets' > eResets
             => /\ attempt = 1
                /\ eErr'.kind = "rpc" /\ eErr'.code = TurnStartCode
                /\ HasTurnStartFailed(eErr'.message)
                /\ eRuntime' = "none"
        /\ (epc = "stream" /\ epc' # "stream" /\ eErr' # NoErr /\ eResets' = eResets)
             => (epc' = "returned" /\ eRet'.err = eErr'.kind)
        /\ (epc = "stream" /\ attempt = maxAttempts /\ epc' # "stream")
             => epc' = "returned"]_vars

\* the first attempt failed with the turn-start error, the runtime was reset
\* and created again, and the second attempt failed the same way: the error
\* was returned
C29_Witness ==
  /\ epc = "returned"
  /\ attempt = maxAttempts
  /\ eResets = 1
  /\ eCreated = 2
  /\ eErr.kind = "rpc" /\ eErr.code = TurnStartCode /\ HasTurnStartFailed(eErr.message)
  /\ eRet.err = "rpc"

\* ---------------------------------------------------------------------------
\* TurnController under arbitrary calls: Activate with fresh turn ids and
\* Release with any (threadID, turnID) pair, as runtime_test.go drives it
\* ---------------------------------------------------------------------------

\* turn ids handed out by newTurnID; each is used for one Activate only, and
\* usedTurns keeps the thread it was registered on ("refused" after a 409)
TurnIDs == {"u1", "u2", "u3"}

\* Activate(threadID, turnID, cancel) with a turn id not used before
CtlActivate(threadID, turnID) ==
  /\ turnID \notin DOMAIN usedTurns
  /\ usedTurns' = MapPut(usedTurns, turnID,
                         IF ActivateOk(byThread, threadID) THEN threadID ELSE "refused")
  /\ IF ActivateOk(byThread, threadID)
     THEN /\ byThread' = MapPut(byThread, threadID, turnID)
          /\ byTurn' = MapPut(byTurn, turnID, threadID)
          /\ lastOp' = [op |-> "activate", threadID |-> threadID, turnID |-> turnID, ok |-> TRUE]
          /\ wfLate' = IF wfCtx THEN wfLate ELSE 0
     ELSE /\ UNCHANGED <<ctlVars, wfLate>>
          /\ lastOp' = [op |-> "activate", threadID |-> threadID, turnID |-> turnID, ok |-> FALSE]
  /\ UNCHANGED <<reqVars, ctxVars, dbVars, strVars, acpVars, permVars, frames, prompt, sysVars,
                 txVars>>
  /\ UNCHANGED <<auxButRel, relArg, wfpc, wfRet, wfCtx, wfTick, wfSince>>

\* a caller enters Release(threadID, turnID) and waits for c.mu
CtlReleaseCall(threadID, turnID) ==
  /\ relArg = NoCall
  /\ relArg' = [op |-> "release", threadID |-> threadID, turnID |-> turnID]
  /\ UNCHANGED <<coreVars, auxButRel, usedTurns, lastOp, wfVars>>

\* the body of Release under c.mu
CtlReleaseRun ==
  /\ relArg # NoCall
  /\ byThread' = ReleaseByThread(byThread, byTurn, relArg.threadID, relArg.turnID)
  /\ byTurn' = ReleaseByTurn(byTurn, relArg.threadID, relArg.turnID)
  /\ lastOp' = [op |-> "release", threadID |-> relArg.threadID, turnID |-> relArg.turnID,
                ok |-> byTurn' # byTurn \/ byThread' # byThread]
  /\ relArg' = NoCall
  /\ UNCHANGED <<reqVars, ctxVars, dbVars, strVars, acpVars, permVars, frames, prompt, sysVars,
                 txVars>>
  /\ UNCHANGED <<auxButRel, usedTurns, wfVars>>

\* Cancel(turnID): looks the turn up in byTurn and calls its cancel function;
\* the maps stay as they are
CtlCancel(turnID) ==
  /\ lastOp' = [op |-> "cancel", threadID |-> "none", turnID |-> turnID,
                ok |-> TurnActive(byTurn, turnID)]
  /\ UNCHANGED <<coreVars, auxButRel, usedTurns, relArg, wfVars>>

\* CancelAll: calls the cancel function of every entry of byTurn; the maps
\* stay as they are
CtlCancelAll ==
  /\ lastOp' = [op |-> "cancelAll", threadID |-> "none", turnID |-> "none",
                ok |-> CancelAllTargets(byTurn) # {}]
  /\ UNCHANGED <<coreVars, auxButRel, usedTurns, relArg, wfVars>>

NextCtl ==
  \/ \E threadID \in Threads, turnID \in TurnIDs : CtlActivate(threadID, turnID)
  \/ \E threadID \in Threads, turnID \in TurnIDs : CtlReleaseCall(threadID, turnID)
  \/ CtlReleaseRun
  \/ \E turnID \in TurnIDs : CtlCancel(turnID)
  \/ CtlCancelAll

\* one TurnController driven by any sequence of Activate, Release, Cancel and
\* CancelAll calls
SpecCtl == Init /\ [][NextCtl]_vars

\* C30: Release(threadID, turnID) removes the active entry only when
\* byTurn[turnID] exists and belongs to threadID, and then removes exactly that
\* entry from both maps; any other Release (unknown turn, released turn,
\* mismatched thread) leaves both maps as they were, so a late Release of an
\* old turn keeps the slot a newer turn holds on the same thread.
C30_ReleaseOnlyMatchingEntry ==
  [][(relArg # NoCall /\ relArg' = NoCall) =>
       IF relArg.turnID \in DOMAIN byTurn /\ byTurn[relArg.turnID] = relArg.threadID
       THEN /\ byTurn' = [u \in DOMAIN byTurn \ {relArg.turnID} |-> byTurn[u]]
            /\ byThread' = [t \in DOMAIN byThread \ {relArg.threadID} |-> byThread[t]]
       ELSE /\ byTurn' = byTurn
            /\ byThread' = byThread
            /\ (relArg.threadID \in DOMAIN byThread =>
                  /\ relArg.threadID \in DOMAIN byThread'
                  /\ byThread'[relArg.threadID] = byThread[relArg.threadID])]_vars

\* a Release of an already used, no longer active turn has just run on a
\* thread whose slot a newer turn holds, and the newer turn is still there
C30_Witness ==
  /\ lastOp.op = "release"
  /\ ~lastOp.ok
  /\ lastOp.turnID \in DOMAIN usedTurns
  /\ usedTurns[lastOp.turnID] = lastOp.threadID
  /\ lastOp.turnID \notin DOMAIN byTurn
  /\ lastOp.threadID \in DOMAIN byThread
  /\ byThread[lastOp.threadID] # lastOp.turnID
  /\ byTurn[byThread[lastOp.threadID]] = lastOp.threadID

\* ---------------------------------------------------------------------------
\* TurnController.WaitForIdle statement by statement, with its 20 ms ticker;
\* time is counted in units of 10 ms and stands still while the waiter can
\* take a step
\* ---------------------------------------------------------------------------

\* the ticker period of WaitForIdle, in units of 10 ms
PollInterval == 2

AlwaysIdle(bu) == TRUE
\* idle := len(c.byTurn) == 0
Idle(bu) == Cardinality(DOMAIN bu) = 0

\* WaitForIdle(ctx) is called: the ticker starts
WfiCall ==
  /\ wfpc = "none"
  /\ wfpc' = "check"
  /\ wfSince' = 0
  /\ wfTick' = FALSE
  /\ UNCHANGED <<coreVars, auxButRel, usedTurns, relArg, lastOp, wfRet, wfCtx, wfLate>>

\* the check under c.mu: return nil when idle, else go to the select
WfiCheck ==
  /\ wfpc = "check"
  /\ IF Idle(byTurn)
     THEN /\ wfRet' = "nil"
          /\ wfpc' = "done"
     ELSE /\ wfpc' = "select"
          /\ UNCHANGED wfRet
  /\ UNCHANGED <<coreVars, auxButRel, usedTurns, relArg, lastOp, wfCtx, wfTick, wfSince, wfLate>>

\* case <-ctx.Done(): return ctx.Err()
WfiSelectDone ==
  /\ wfpc = "select"
  /\ wfCtx
  /\ wfRet' = "err"
  /\ wfpc' = "done"
  /\ UNCHANGED <<coreVars, auxButRel, usedTurns, relArg, lastOp, wfCtx, wfTick, wfSince, wfLate>>

\* case <-ticker.C: back to the check
WfiSelectTick ==
  /\ wfpc = "select"
  /\ wfTick
  /\ wfTick' = FALSE
  /\ wfpc' = "check"
  /\ UNCHANGED <<coreVars, auxButRel, usedTurns, relArg, lastOp, wfRet, wfCtx, wfSince, wfLate>>

\* the caller's context is cancelled or its deadline passes
WfiCtxCancel ==
  /\ wfpc \in {"check", "select"}
  /\ ~wfCtx
  /\ wfCtx' = TRUE
  /\ UNCHANGED <<coreVars, auxButRel, usedTurns, relArg, lastOp, wfpc, wfRet, wfTick, wfSince, wfLate>>

\* 10 ms pass while the waiter blocks in the select; the ticker fires when its
\* period is over; wfLate counts the time for which a reason to return has held
WfiTime ==
  /\ wfpc = "select"
  /\ ~wfCtx
  /\ ~wfTick
  /\ wfLate <= PollInterval
  /\ wfSince' = (wfSince + 1) % PollInterval
  /\ wfTick' = (wfSince + 1 = PollInterval)
  /\ wfLate' = IF Idle(byTurn) \/ wfCtx THEN wfLate + 1 ELSE 0
  /\ UNCHANGED <<coreVars, auxButRel, usedTurns, relArg, lastOp, wfpc, wfRet, wfCtx>>

NextIdle ==
  \/ \E threadID \in {"t1", "t2"}, turnID \in TurnIDs : CtlActivate(threadID, turnID)
  \/ \E threadID \in {"t1", "t2"}, turnID \in TurnIDs : CtlReleaseCall(threadID, turnID)
  \/ CtlReleaseRun
  \/ WfiCall
  \/ WfiCheck
  \/ WfiSelectDone
  \/ WfiSelectTick
  \/ WfiCtxCancel
  \/ WfiTime

\* one WaitForIdle call next to Activate and Release calls
SpecIdle == Init /\ [][NextIdle]_vars

\* C31: WaitForIdle returns nil only in a check that finds byTurn empty, it
\* returns the context's error when it returns with the context cancelled and
\* a turn still active (and only with the context cancelled), and a reason to
\* return (no active turn, or a cancelled context) never stays unanswered for
\* more than one polling interval.
C31_WaitForIdleReturns ==
  /\ [][(wfRet = "none" /\ wfRet' = "nil") => Cardinality(DOMAIN byTurn) = 0]_vars
  /\ [][(wfRet = "none" /\ wfRet' # "none" /\ wfCtx /\ Cardinality(DOMAIN byTurn) > 0)
          => wfRet' = "err"]_vars
  /\ [](wfRet = "err" => wfCtx)
  /\ [](wfLate <= PollInterval)

\* the waiter blocked for a whole polling interval after the last turn was
\* released and then returned nil
C31_Witness ==
  /\ wfRet = "nil"
  /\ wfLate = PollInterval
  /\ lastOp.op = "release"
  /\ lastOp.ok

\* C32: threads.summary changes only in the step in which a compact request
\* settles its turn as completed with stopReason end_turn, and only for the
\* thread of that request; a compact request whose turn is settled as
\* cancelled or failed leaves the summary of its thread as it was.
C32_SummaryOnlyByCompletedCompact ==
  /\ [][summary' # summary =>
          \E r \in Requests :
            /\ kind[r] = "compact"
            /\ fin[r] = NoFin
            /\ fin'[r] = [status |-> "completed", stopReason |-> StopReasonEndTurn]
            /\ \A t \in Threads \ {thread[r]} : summary'[t] = summary[t]]_vars
  /\ [][\A r \in Requests :
          (kind[r] = "compact" /\ fin[r] = NoFin /\ fin'[r] # NoFin
             /\ fin'[r].status \in {"cancelled", "failed"}) => summary' = summary]_vars

\* a compact request was cancelled while its agent streamed, its turn is
\* stored as cancelled and the summary of its thread is the one it had
C32_Witness ==
  \E r \in Requests :
    /\ kind[r] = "compact"
    /\ ctxCancelled[r]
    /\ nDeltas[r] > 0
    /\ rows[r].status = "cancelled"
    /\ summary[thread[r]] = NoSummary

\* C33: at every instant, every stored turn row has completedAt set if and
\* only if its status is not running.
C33_CompletedAtIffNotRunning ==
  \A u \in DOMAIN rows :
    rows[u].status # "none" => (rows[u].completedAt # 0 <=> rows[u].status # "running")

\* FinalizeTurn has stored a terminal status for a turn whose row CreateTurn
\* had inserted as running
C33_Witness ==
  \E u \in DOMAIN rows :
    /\ rows[u].status \in {"completed", "cancelled", "failed"}
    /\ rows[u].completedAt > 0
    /\ pc[u] \in {"defer", "done"}

\* ---------------------------------------------------------------------------
\* composeContextPrompt on strings: a string is a sequence of characters, "x"
\* for a character that is no white space and " " for white space
\* ---------------------------------------------------------------------------

\* the longest summary and input drawn, and the largest budget
MaxText == 9
MaxBudget == 84

\* for i := 0; i < 256; i++
maxTrimIterations == 256

\* n characters that are no white space
Rep(n) == [k \in 1..n |-> "x"]
Ws(n) == [k \in 1..n |-> " "]

RECURSIVE TrimLeft(_)
TrimLeft(text) ==
  IF text # <<>> /\ Head(text) = " " THEN TrimLeft(Tail(text)) ELSE text

RECURSIVE TrimRight(_)
TrimRight(text) ==
  IF text # <<>> /\ text[Len(text)] = " " THEN TrimRight(SubSeq(text, 1, Len(text) - 1)) ELSE text

\* strings.TrimSpace
TrimSpace(text) == TrimRight(TrimLeft(text))

\* "User: " request "\nAssistant: " response "\n" for every turn
RECURSIVE renderTurns(_)
renderTurns(recentTurns) ==
  IF recentTurns = <<>> THEN <<>>
  ELSE Rep(LenUser - 1) \o Ws(1) \o TrimSpace(Head(recentTurns).requestText)
       \o Ws(1) \o Rep(LenAssistant - 2) \o Ws(1) \o TrimSpace(Head(recentTurns).responseText)
       \o Ws(LenTurnEnd) \o renderTurns(Tail(recentTurns))

\* renderContextPrompt: the three headings with their line ends
renderContextPrompt(summaryText, recentTurns, currentInput) ==
  Rep(LenSummaryHead - 1) \o Ws(1)
  \o (IF summaryText = <<>> THEN Rep(LenEmpty) ELSE summaryText)
  \o Ws(2) \o Rep(LenRecentHead - 3) \o Ws(1)
  \o (IF recentTurns = <<>> THEN Rep(LenNone) ELSE renderTurns(recentTurns) \o Rep(LenRecentEnd))
  \o Ws(2) \o Rep(LenInputHead - 3) \o Ws(1)
  \o currentInput

\* the trim loop from iteration i on; iters is the number of iterations begun
\* when the result is returned, inLoop tells a return from inside the loop from
\* the return after it
RECURSIVE trimLoop(_, _, _, _, _)
trimLoop(summaryText, recentTurns, currentInput, maxChars, i) ==
  LET rendered == renderContextPrompt(summaryText, recentTurns, currentInput)
  IN IF i >= maxTrimIterations
     THEN [text |-> clampToChars(rendered, maxChars), iters |-> i, inLoop |-> FALSE]
     ELSE IF maxChars <= 0 \/ Len(rendered) <= maxChars
     THEN [text |-> rendered, iters |-> i + 1, inLoop |-> TRUE]
     ELSE IF Len(recentTurns) > 0
     THEN trimLoop(summaryText, Tail(recentTurns), currentInput, maxChars, i + 1)
     ELSE IF Len(summaryText) > 0
     THEN trimLoop(clampToChars(summaryText,
                                Len(summaryText) - maxInt(1, Len(summaryText) \div 4)),
                   recentTurns, currentInput, maxChars, i + 1)
     ELSE IF Len(currentInput) > 0
     THEN trimLoop(summaryText, recentTurns,
                   truncateFromEnd(currentInput,
                                   Len(currentInput) - maxInt(1, Len(currentInput) \div 4)),
                   maxChars, i + 1)
     ELSE [text |-> clampToChars(rendered, maxChars), iters |-> i + 1, inLoop |-> TRUE]

composeUnclamped(summaryText, recentTurns, currentInput, maxChars) ==
  [text |-> renderContextPrompt(TrimSpace(summaryText), recentTurns, TrimSpace(currentInput)),
   iters |-> 1, inLoop |-> TRUE]
\* composeContextPrompt(summary, recentTurns, currentInput, maxChars) with the
\* number of loop iterations it took
composeText(summaryText, recentTurns, currentInput, maxChars) ==
  LET sm == TrimSpace(summaryText)
      inp == TrimSpace(currentInput)
  IN IF sm = <<>> /\ recentTurns = <<>>
     THEN [text |-> IF maxChars <= 0 \/ Len(inp) <= maxChars THEN inp
                    ELSE clampToChars(inp, maxChars),
           iters |-> 0, inLoop |-> FALSE]
     ELSE trimLoop(sm, recentTurns, inp, maxChars, 0)

\* the strings drawn for a summary and an input
Texts ==
  {Rep(n) : n \in {0, 1, 4, MaxText}} \cup {Ws(1) \o Rep(2) \o Ws(1), Ws(2), Rep(1) \o Ws(1) \o Rep(1)}

\* the lists of recent turns drawn: none, one, two, and more than the loop can drop
RecentLists ==
  LET turn(n) == [requestText |-> Rep(n), responseText |-> Rep(MaxText - n)]
      one == {<<turn(n)>> : n \in {0, 2}}
  IN {<<>>} \cup one \cup {<<turn(0), turn(2)>>}

LongRecent == [k \in 1..(maxTrimIterations + 2) |-> [requestText |-> <<>>, responseText |-> <<>>]]

\* a caller passes a summary, recent turns, an input and a budget
ComposeCall(summaryText, recentTurns, currentInput, maxChars) ==
  /\ cmIn = NoCall
  /\ cmIn' = [op |-> "compose", summary |-> summaryText, recent |-> recentTurns,
              input |-> currentInput, maxChars |-> maxChars]
  /\ UNCHANGED <<coreVars, auxButCm, cmOut, cmAgain>>

\* composeContextPrompt runs on the arguments
ComposeRun ==
  /\ cmIn # NoCall
  /\ cmOut = NoCall
  /\ cmOut' = composeText(cmIn.summary, cmIn.recent, cmIn.input, cmIn.maxChars)
  /\ UNCHANGED <<coreVars, auxButCm, cmIn, cmAgain>>

\* the result is composed again as the summary of an empty conversation
ComposeAgain ==
  /\ cmOut # NoCall
  /\ cmAgain = NoCall
  /\ cmAgain' = composeText(cmOut.text, <<>>, <<>>, cmIn.maxChars)
  /\ UNCHANGED <<coreVars, auxButCm, cmIn, cmOut>>

NextCompose ==
  \/ \E summaryText \in Texts, recentTurns \in RecentLists, currentInput \in Texts,
        maxChars \in 1..MaxBudget :
        ComposeCall(summaryText, recentTurns, currentInput, maxChars)
  \/ \E maxChars \in {1, MaxBudget} : ComposeCall(Rep(1), LongRecent, Rep(1), maxChars)
  \/ ComposeRun
  \/ ComposeAgain

\* composeContextPrompt applied to every drawn argument list, and once more
SpecCompose == Init /\ [][NextCompose]_vars

C35_DecidedOutcomeDelivered ==
  \A r \in Requests :
    (decResp[r] = "200" /\ permDelivered[r] # "none") =>
      (permBy[r] = "decision" /\ permDelivered[r] = permOutcome[r])

\* C36: the provider instance resolveTurnAgent handed to a request is not
\* closed as long as the request has not come back from its Stream call.
C36_HandedProviderNotClosed ==
  \A w \in Workers :
    (wpc[w] \in {"activate", "stream"} /\ wAgent[w] # "none") => wAgent[w] \notin closed

\* C37: a call whose response the read loop has put on its channel returns
\* that response as its result when its context is not cancelled, also when
\* the connection is closed after the response was dispatched.
C37_DispatchedResponseReturned ==
  \A w \in Workers :
    (callpc[w] = "returned" /\ callCh[w] = "msg" /\ ~callCtx[w]) => callRes[w] = "result"

\* C38: when a request passes activation in a server that was not restarted,
\* the prompt it goes on with is the prompt composed from the thread's history
\* as it is then, in which no other turn of the thread is running; a prompt
\* built while another turn of the thread was running is not used by a request
\* that passes activation.
C38_PromptFromFinalizedHistory ==
  [][\A r \in Requests :
       (restarts = 0 /\ pc[r] = "activate" /\ pc'[r] = "create") =>
         /\ \A u \in Requests \ {r} : rows[u].thread = thread[r] => rows[u].status # "running"
         /\ prompt[r] = buildInjectedPrompt(rows, summary, thread[r],
                                            IF kind[r] = "turn" THEN InputOf(r) ELSE Instruction)]_vars

\* C39: when a Stream call of the embedded provider returns end_turn without
\* an error, every delta the runtime published before it answered
\* session/prompt was passed to onDelta, in the order of publication, and none
\* is left in the subscription.
C39_PublishedDeltasDelivered ==
  (epc = "returned" /\ eRet.err = "nil" /\ eRet.reason = StopReasonEndTurn) =>
    /\ eQueue = <<>>
    /\ \A i \in DOMAIN eSeen : eSeen[i] = i

====
